---- MODULE Spec2Model ----
(***************************************************************************)
(* A model of the LAO linear-algebra library: the dense 1-indexed          *)
(* lao::linalg::Matrix<S,R,C> container, the expression templates of       *)
(* arithmetic.hpp that are materialized into it, and the two solvers       *)
(* LU_doolittle and solve_jacobi_element.                                  *)
(*                                                                         *)
(* Eight specifications share the variables of the module; each leaves the  *)
(* variables of the others at the value Unused.                            *)
(*   Spec        one Matrix object: constructors and operator()            *)
(*   SpecAccess  one Matrix object built from a well-formed list: reads    *)
(*               and element assignments                                   *)
(*   SpecExpr    expressions over two operands, materialized into a third  *)
(*   SpecLU      LU_doolittle, one step per element written                *)
(*   SpecJacobi  solve_jacobi_element, one step per iteration              *)
(*   SpecObj     two Matrix objects of one type: fill policies, mutators,  *)
(*               reset and copies                                          *)
(*   SpecNode    an expression node over two Matrix objects that change    *)
(*   SpecIter    the row and column iterators of one Matrix object         *)
(*                                                                         *)
(* size_t arithmetic: an index expression such as (row-1)*C + (col-1) is   *)
(* computed here over the integers.  Unsigned 64-bit arithmetic is the     *)
(* same value modulo 2^64, so for the small operands of the model a        *)
(* result in [0, size) is the index the code addresses and a negative      *)
(* result stands for the wrapped index 2^64 + result, far beyond the       *)
(* buffer.                                                                 *)
(***************************************************************************)
EXTENDS Integers, Sequences, FiniteSets, TLC

\* ------------------------------------------------------------------ bounds
\* largest number of rows and of columns of a modelled matrix
MaxDim == 2
\* largest start value of the generated operand contents
MaxVal == 2
\* element assignments through the mutable accessor per behaviour
MaxWrites == 1
\* largest max_iterations handed to solve_jacobi_element
MaxIter == 3
\* mutating calls on the Matrix objects per behaviour
MaxCalls == 2

VARIABLES
    mat,            \* Spec: the Matrix object under test
    nwrites,        \* Spec: element assignments made so far;
                    \* SpecObj: mutating calls made so far
    header,         \* SpecObj: the header whose Matrix class the objects have
    expr,           \* SpecNode: the expression node that was built, if any
    resets,         \* SpecObj: the objects reset() was called on
    it,             \* SpecIter: the iterator object in hand, if any
    stop,           \* SpecIter: the running loop: its end iterator, the
                    \* iterator it started from and its form
    scratch,        \* SpecIter: the values the running loop has pushed back
    mat1, mat2,     \* SpecExpr: the operands of the expression;
                    \* SpecObj, SpecNode: the two Matrix objects of one type
    mat3,           \* SpecExpr: the destination of the materialization
    op,             \* the last operation and its arguments
    thrown,         \* what the last operation raised ("none" when it returned)
    value,          \* <<v>> when the last operation returned the scalar v
    calls,          \* the accessor calls <<object, row, col>> of the last operation
    touched,        \* the buffer positions <<object, index>> it addressed
    A,              \* SpecLU, SpecJacobi: the coefficient matrix
    L, U,           \* SpecLU: the two factors, written by LU_doolittle
    x, b,           \* SpecJacobi: the solution and the right-hand side
    x_scratch,      \* SpecJacobi: the local Matrix<S,R,1> of the solver
    max_iterations, \* SpecJacobi: the iteration cap of the call
    tol,            \* SpecJacobi: the tolerance of the call
    iter,           \* SpecJacobi: the loop counter
    err,            \* SpecJacobi: the update norm of the last iteration
    out,            \* SpecJacobi: the lines written to std::cout
    loop,           \* SpecLU: the loop variables [j, i] of the running call;
                    \* SpecJacobi: [errs], the err of each executed iteration
    pc              \* where the running solver call stands

exprVars == <<mat1, mat2, mat3>>
solverVars ==
    <<A, L, U, x, b, x_scratch, max_iterations, tol, iter, err, out, loop, pc>>
objVars == <<header, expr, resets>>
iterVars == <<it, stop, scratch>>
vars == <<mat, nwrites, objVars, iterVars, exprVars, op, thrown, value, calls, touched, solverVars>>

\* the value of a variable that a specification does not use
Unused == <<>>

ObjUnused ==
    /\ header = Unused /\ expr = Unused /\ resets = Unused
    /\ it = Unused /\ stop = Unused /\ scratch = Unused

SolversUnused ==
    /\ A = Unused /\ L = Unused /\ U = Unused
    /\ x = Unused /\ b = Unused /\ x_scratch = Unused
    /\ max_iterations = Unused /\ tol = Unused
    /\ iter = Unused /\ err = Unused /\ out = Unused
    /\ loop = Unused /\ pc = Unused

\* ------------------------------------------------------- the Matrix container
\* A Matrix<S,R,C>: the three template parameters and the std::vector buffer.
MatrixOf(S, R, C, elements) ==
    [S |-> S, R |-> R, C |-> C, m_elements |-> elements]

\* the scalar types of the model
ScalarTypes == {"int", "double"}

\* A Matrix<int,R,C>, the type of the tests
Matrix(R, C, elements) == MatrixOf("int", R, C, elements)

\* no object: what is left when a constructor throws
NoMatrix == Matrix(0, 0, <<>>)

\* Matrix(): R*C elements, all value_type(0)
DefaultMatrix(R, C) == Matrix(R, C, [k \in 1..(R * C) |-> 0])

\* the guard of operator(), as written in the source
AccessThrows(m, row, col) == row > m.R + 1 \/ col > m.C + 1

\* BufferIndex for a buffer in column-major order
BufferIndexColumnMajor(m, row, col) == (col - 1) * m.R + (row - 1)

\* the buffer position operator() addresses (0-based, over the integers)
BufferIndex(m, row, col) == (row - 1) * m.C + (col - 1)

\* whether a buffer position lies inside the vector
InBuffer(m, idx) == 0 <= idx /\ idx < Len(m.m_elements)

\* what a read of storage outside the buffer can return
Garbage == {0, 7}

\* the operation record: its name and its arguments (0 and <<>> where unused)
Op(name, kind, row, col, v, lens) ==
    [name |-> name, kind |-> kind, row |-> row, col |-> col, v |-> v, lens |-> lens]

\* Matrix(): the default constructor of a Matrix<S,R,C>
Construct(R, C) ==
    /\ op.name = "none"
    /\ op' = Op("construct", "", R, C, 0, <<>>)
    /\ mat' = DefaultMatrix(R, C)
    /\ thrown' = "none"
    /\ value' = <<>>
    /\ calls' = {}
    /\ touched' = {<<"mat", i>> : i \in 0..(R * C - 1)}
    /\ UNCHANGED <<nwrites, objVars, exprVars, solverVars, iterVars>>

\* ------------------------------------------ Matrix(initializer_list of rows)
\* the nested list with the given inner lengths, holding 1, 2, 3, ... row by row
RECURSIVE SumTo(_, _)
SumTo(lens, n) == IF n = 0 THEN 0 ELSE SumTo(lens, n - 1) + lens[n]

NestedList(lens) ==
    [i \in 1..Len(lens) |-> [k \in 1..lens[i] |-> SumTo(lens, i - 1) + k]]

\* CopyRow with every row copied to m_elements.begin()
CopyRowUnshifted(buf, il, start) ==
    [p \in 1..Len(buf) |-> IF p <= Len(il) THEN il[p] ELSE buf[p]]

\* std::copy(il.begin(), il.end(), m_elements.begin() + row * C): the part of
\* the copy that lands inside the buffer
CopyRow(buf, il, start) ==
    [p \in 1..Len(buf) |->
        IF start < p /\ p <= start + Len(il) THEN il[p - start] ELSE buf[p]]

\* the loop over the rows of the list, row = 0, 1, ...
RECURSIVE CopyRows(_, _, _, _)
CopyRows(buf, list, C, row) ==
    IF row >= Len(list) THEN buf
    ELSE CopyRows(CopyRow(buf, list[row + 1], row * C), list, C, row + 1)

\* the buffer positions the copies write
ListWrites(list, C) ==
    {(row - 1) * C + (k - 1) : row \in 1..Len(list), k \in 1..MaxDim + 2}
        \cap UNION {{(row - 1) * C + (k - 1) : k \in 1..Len(list[row])} :
                        row \in 1..Len(list)}

\* the size check of the constructor: the outer length and the FIRST row only
ListRejected(list, R, C) ==
    IF Len(list) # R THEN TRUE ELSE Len(list[1]) # C

ConstructList(R, C, lens) ==
    LET list == NestedList(lens)
        made == Matrix(R, C, CopyRows(DefaultMatrix(R, C).m_elements, list, C, 0))
        wr   == {<<"mat", i>> : i \in ListWrites(list, C)}
    IN  /\ op.name = "none"
        /\ op' = Op("construct_list", "", R, C, 0, lens)
        /\ value' = <<>>
        /\ calls' = {}
        /\ IF ListRejected(list, R, C)
           THEN /\ thrown' = "invalid_argument"
                /\ mat' = NoMatrix
                /\ touched' = {}
           ELSE /\ touched' = wr
                /\ IF \A w \in wr : InBuffer(made, w[2])
                   THEN thrown' = "none" /\ mat' = made
                   \* a row longer than C at the end of the buffer: the copy runs
                   \* past the vector, undefined behaviour
                   ELSE \E crash \in BOOLEAN :
                            IF crash THEN thrown' = "segv" /\ mat' = NoMatrix
                                     ELSE thrown' = "none" /\ mat' = made
        /\ UNCHANGED <<nwrites, objVars, exprVars, solverVars, iterVars>>

\* ------------------------------------------------------ operator()(row, col)
\* const value_type& operator()(size_t row, size_t col) const, then a read
Read(row, col) ==
    LET idx == BufferIndex(mat, row, col)
    IN  /\ mat # NoMatrix
        /\ op' = Op("read", "", row, col, 0, <<>>)
        /\ calls' = {<<"mat", row, col>>}
        /\ IF AccessThrows(mat, row, col)
           THEN thrown' = "out_of_range" /\ value' = <<>> /\ touched' = {}
           ELSE /\ touched' = {<<"mat", idx>>}
                /\ IF InBuffer(mat, idx)
                   THEN thrown' = "none" /\ value' = <<mat.m_elements[idx + 1]>>
                   \* m_elements[idx] outside the vector: undefined behaviour
                   ELSE \E g \in Garbage : thrown' = "none" /\ value' = <<g>>
        /\ UNCHANGED <<mat, nwrites, objVars, exprVars, solverVars, iterVars>>

\* value_type& operator()(size_t row, size_t col), then an assignment of v
Write(row, col, v) ==
    LET idx == BufferIndex(mat, row, col)
    IN  /\ mat # NoMatrix
        /\ nwrites < MaxWrites
        /\ nwrites' = nwrites + 1
        /\ op' = Op("write", "", row, col, v, <<>>)
        /\ calls' = {<<"mat", row, col>>}
        /\ value' = <<>>
        /\ IF AccessThrows(mat, row, col)
           THEN thrown' = "out_of_range" /\ touched' = {} /\ mat' = mat
           ELSE /\ touched' = {<<"mat", idx>>}
                /\ thrown' = "none"
                /\ IF InBuffer(mat, idx)
                   THEN mat' = [mat EXCEPT !.m_elements[idx + 1] = v]
                   \* a store outside the vector: undefined behaviour, the
                   \* matrix itself keeps its elements
                   ELSE mat' = mat
        /\ UNCHANGED <<objVars, exprVars, solverVars, iterVars>>

\* ------------------------------------------------------------- Spec
Dims == 1..MaxDim
Indices == 0..(MaxDim + 2)
ListLens == UNION {[1..n -> 0..(MaxDim + 1)] : n \in 0..(MaxDim + 1)}
WriteVals == {5}

Init ==
    /\ mat = NoMatrix
    /\ nwrites = 0
    /\ ObjUnused
    /\ op = Op("none", "", 0, 0, 0, <<>>)
    /\ thrown = "none"
    /\ value = <<>>
    /\ calls = {}
    /\ touched = {}
    /\ mat1 = Unused /\ mat2 = Unused /\ mat3 = Unused
    /\ SolversUnused

\* one disjunct per operation on the Matrix object
Next ==
    \/ \E R \in Dims, C \in Dims : Construct(R, C)
    \/ \E R \in Dims, C \in Dims, lens \in ListLens : ConstructList(R, C, lens)
    \/ \E row \in Indices, col \in Indices : Read(row, col)
    \/ \E row \in Indices, col \in Indices, v \in WriteVals : Write(row, col, v)

Spec == Init /\ [][Next]_vars

\* ------------------------------------------------------------- SpecAccess
\* element access on a matrix constructed from a list of its declared shape
NextAccess ==
    \/ \E R \in Dims, C \in Dims : ConstructList(R, C, [i \in 1..R |-> C])
    \/ \E row \in Indices, col \in Indices : Read(row, col)
    \/ \E row \in Indices, col \in Indices, v \in WriteVals : Write(row, col, v)

SpecAccess == Init /\ [][NextAccess]_vars

\* ------------------------------------------------------------ expressions
\* An expression is a tree: a leaf refers to a Matrix object by name (the
\* nodes hold references, never copies), a node holds its operator and its two
\* operand expressions.
Leaf(name) == [kind |-> "leaf", name |-> name]
Node(kind, lhs, rhs) == [kind |-> kind, lhs |-> lhs, rhs |-> rhs]

\* the scalar operand of a MatrixScalarMultiplication node (kind "s*"): a
\* value v of type S
Scalar(S, v) == [kind |-> "scalar", S |-> S, v |-> v]

\* the objects a leaf can refer to, as they are now
Env == [mat1 |-> mat1, mat2 |-> mat2, mat3 |-> mat3]

ElementWiseOps == {"+", "-", "%", "==", "!=", ">=", "<=", ">", "<"}
ExprOps == ElementWiseOps \cup {"*"}

\* the template parameters R and C the operator overloads give the node
RECURSIVE ExprRows(_, _)
ExprRows(e, env) ==
    IF e.kind = "leaf" THEN env[e.name].R
    ELSE IF e.kind = "s*" THEN ExprRows(e.rhs, env)
    ELSE ExprRows(e.lhs, env)

RECURSIVE ExprCols(_, _)
ExprCols(e, env) ==
    IF e.kind = "leaf" THEN env[e.name].C
    ELSE IF e.kind \in {"+", "-"} THEN ExprCols(e.lhs, env)
    ELSE ExprCols(e.rhs, env)

\* the template parameter S the operator overloads give the node: S1
RECURSIVE ExprS(_, _)
ExprS(e, env) ==
    IF e.kind = "leaf" THEN env[e.name].S
    ELSE IF e.kind = "scalar" THEN e.S
    ELSE ExprS(e.lhs, env)

\* std::same_as<S1, S2> and R1 == R2 && C1 == C2
SameShape(e, env) ==
    /\ ExprS(e.lhs, env) = ExprS(e.rhs, env)
    /\ ExprRows(e.lhs, env) = ExprRows(e.rhs, env)
    /\ ExprCols(e.lhs, env) = ExprCols(e.rhs, env)

\* std::same_as<S1, S2> and C1 == R2
MatMulReqs(e, env) ==
    /\ ExprS(e.lhs, env) = ExprS(e.rhs, env)
    /\ ExprCols(e.lhs, env) = ExprRows(e.rhs, env)

\* Accepted with operator* left without its requires clause
AcceptedProductUnconstrained(e, env) ==
    e.kind = "*" \/ SameShape(e, env)

\* Accepted with operator-, which has no requires clause, taking any operands
AcceptedSubtractionUnconstrained(e, env) ==
    IF e.kind = "*" THEN MatMulReqs(e, env)
    ELSE e.kind = "-" \/ SameShape(e, env)

\* whether the operator call compiles: EnforceMatMulReqs on operator*,
\* EnforceSameShape on the element-wise operators; operator- has no requires
\* clause, and its body hands lhs, a MatrixExpression<E1,S1,R1,C1>, to a
\* constructor parameter of type MatrixExpression<E1,S2,R2,C2>, which is the
\* same type exactly when EnforceSameShape would hold
Accepted(e, env) ==
    IF e.kind = "*" THEN MatMulReqs(e, env) ELSE SameShape(e, env)

\* bool converted to the scalar type S
BoolToS(cond) == IF cond THEN 1 ELSE 0

\* ScalarOp with MatrixSubtraction::operator() left as the copy of
\* MatrixAddition::operator() it was written from
ScalarOpSubtractionAdds(kind, l, r) ==
    CASE kind = "+"  -> l + r
      [] kind = "-"  -> l + r
      [] kind = "%"  -> l * r
      [] kind = "==" -> BoolToS(l = r)
      [] kind = "!=" -> BoolToS(l # r)
      [] kind = ">=" -> BoolToS(l >= r)
      [] kind = "<=" -> BoolToS(l <= r)
      [] kind = ">"  -> BoolToS(l > r)
      [] kind = "<"  -> BoolToS(l <= r)

\* the scalar operation of each element-wise node, as its operator() has it
ScalarOp(kind, l, r) ==
    CASE kind = "+"  -> l + r
      [] kind = "-"  -> l - r
      [] kind = "%"  -> l * r
      [] kind = "==" -> BoolToS(l = r)
      [] kind = "!=" -> BoolToS(l # r)
      [] kind = ">=" -> BoolToS(l >= r)
      [] kind = "<=" -> BoolToS(l <= r)
      [] kind = ">"  -> BoolToS(l > r)
      [] kind = "<"  -> BoolToS(l <= r)

\* Matrix::operator()(row, col) const as an expression leaf; g is what a read
\* outside the vector returns
LeafRead(m, row, col, g) ==
    IF AccessThrows(m, row, col) THEN 0
    ELSE IF InBuffer(m, BufferIndex(m, row, col))
         THEN m.m_elements[BufferIndex(m, row, col) + 1]
         ELSE g

\* expr(row, col); MatrixMultiplication runs i = 0 .. m_lhs.cols() - 1
RECURSIVE Eval(_, _, _, _, _)
RECURSIVE DotProduct(_, _, _, _, _, _)
Eval(e, env, row, col, g) ==
    IF e.kind = "leaf" THEN LeafRead(env[e.name], row, col, g)
    ELSE IF e.kind = "*" THEN DotProduct(e, env, row, col, g, 0)
    ELSE IF e.kind = "s*" THEN e.lhs.v * Eval(e.rhs, env, row, col, g)
    ELSE ScalarOp(e.kind, Eval(e.lhs, env, row, col, g), Eval(e.rhs, env, row, col, g))

DotProduct(e, env, row, col, g, i) ==
    IF i >= ExprCols(e.lhs, env) THEN 0
    ELSE Eval(e.lhs, env, row, i, g) * Eval(e.rhs, env, i, col, g)
            + DotProduct(e, env, row, col, g, i + 1)

\* the accessor calls on Matrix objects that expr(row, col) makes
RECURSIVE ExprCalls(_, _, _, _)
ExprCalls(e, env, row, col) ==
    IF e.kind = "leaf" THEN {<<e.name, row, col>>}
    ELSE IF e.kind = "s*" THEN ExprCalls(e.rhs, env, row, col)
    ELSE IF e.kind = "*"
         THEN UNION {ExprCalls(e.lhs, env, row, i) \cup ExprCalls(e.rhs, env, i, col) :
                        i \in 0..(ExprCols(e.lhs, env) - 1)}
         ELSE ExprCalls(e.lhs, env, row, col) \cup ExprCalls(e.rhs, env, row, col)

\* the (row, col) of the k-th buffer element (k from 1) of a matrix with C columns
RowOf(k, C) == ((k - 1) \div C) + 1
ColOf(k, C) == ((k - 1) % C) + 1

\* Matrix(const MatrixExpression<E,S,R,C>& expr): every element of the new
\* buffer is expr(i, j), i = 1..R, j = 1..C
FromExpression(e, env, g) ==
    LET R == ExprRows(e, env)
        C == ExprCols(e, env)
    IN  MatrixOf(ExprS(e, env), R, C,
                 [k \in 1..(R * C) |-> Eval(e, env, RowOf(k, C), ColOf(k, C), g)])

MaterializeCalls(e, env) ==
    UNION {ExprCalls(e, env, i, j) :
            i \in 1..ExprRows(e, env), j \in 1..ExprCols(e, env)}

\* mat3 = mat1 <kind> mat2
Materialize(kind) ==
    LET e  == Node(kind, Leaf("mat1"), Leaf("mat2"))
        cs == MaterializeCalls(e, Env)
        ts == {<<c[1], BufferIndex(Env[c[1]], c[2], c[3])>> : c \in cs}
    IN  /\ op.name = "none"
        /\ Accepted(e, Env)
        /\ op' = Op("materialize", kind, 0, 0, 0, <<>>)
        /\ calls' = cs
        /\ value' = <<>>
        /\ IF \E c \in cs : AccessThrows(Env[c[1]], c[2], c[3])
           THEN thrown' = "out_of_range" /\ mat3' = NoMatrix /\ touched' = {}
           ELSE /\ thrown' = "none"
                /\ touched' = ts
                /\ IF \A t \in ts : InBuffer(Env[t[1]], t[2])
                   THEN mat3' = FromExpression(e, Env, 0)
                   \* some operand read lies outside its vector: undefined
                   \* behaviour, the read returns whatever is stored there
                   ELSE \E g \in Garbage : mat3' = FromExpression(e, Env, g)
        /\ UNCHANGED <<mat, nwrites, objVars, mat1, mat2, solverVars, iterVars>>

\* mat1 <kind> mat2 does not compile: no expression object, no evaluation
Reject(kind) ==
    LET e == Node(kind, Leaf("mat1"), Leaf("mat2"))
    IN  /\ op.name = "none"
        /\ ~Accepted(e, Env)
        /\ op' = Op("reject", kind, 0, 0, 0, <<>>)
        /\ thrown' = "ill_formed"
        /\ calls' = {}
        /\ touched' = {}
        /\ value' = <<>>
        /\ UNCHANGED <<mat, nwrites, objVars, exprVars, solverVars, iterVars>>

\* the operation record of a scalar multiplication: side is "s*" for s * mat1
\* and "*s" for mat1 * s, S and v are the scalar's type and value
OpScaled(name, side, S, v) ==
    [name |-> name, kind |-> side, row |-> 0, col |-> 0, v |-> v, lens |-> <<>>,
     S |-> S]

\* the arguments each scalar operator* overload hands, in this order, to
\* MatrixScalarMultiplication(const S& lhs, const right_expr& rhs)
CtorArguments(side) ==
    IF side = "s*" THEN <<"scalar", "expression">> ELSE <<"expression", "scalar">>

\* whether the scalar operator* call compiles: EnforceSameType on both
\* overloads, and the body's constructor call must bind a scalar to lhs and an
\* expression to rhs (MatrixExpression converts to and from nothing)
AcceptedScaled(side, S, m) ==
    /\ S = m.S
    /\ CtorArguments(side) = <<"scalar", "expression">>

\* mat3 = s * mat1 (side "s*") or mat3 = mat1 * s (side "*s"), s of type S
MaterializeScaled(side, S, s) ==
    LET e  == Node("s*", Scalar(S, s), Leaf("mat1"))
        cs == MaterializeCalls(e, Env)
    IN  /\ op.name = "none"
        /\ value' = <<>>
        /\ IF AcceptedScaled(side, S, mat1)
           THEN /\ op' = OpScaled("materialize", side, S, s)
                /\ calls' = cs
                /\ touched' = {<<c[1], BufferIndex(Env[c[1]], c[2], c[3])>> : c \in cs}
                /\ thrown' = "none"
                /\ mat3' = FromExpression(e, Env, 0)
           ELSE /\ op' = OpScaled("reject", side, S, s)
                /\ calls' = {}
                /\ touched' = {}
                /\ thrown' = "ill_formed"
                /\ mat3' = mat3
        /\ UNCHANGED <<mat, nwrites, objVars, mat1, mat2, solverVars, iterVars>>

\* ------------------------------------------------------------- SpecExpr
\* the scalars of the scalar multiplications
ScalarVals == {-1, 2}

\* operand contents: s, s + t, s + 2t, ... in row-major order
Generated(R, C, s, t) == Matrix(R, C, [k \in 1..(R * C) |-> s + t * (k - 1)])

\* the operands of the arithmetic tests
TestOperands ==
    {Matrix(2, 2, <<1, 2, 3, 4>>), Matrix(2, 2, <<5, 6, 7, 8>>)}

\* operands of scalar type double: 1, 2, 3, ... in row-major order
DoubleOperands ==
    {MatrixOf("double", R, C, Generated(R, C, 1, 1).m_elements) :
        R \in Dims, C \in Dims}

Operands ==
    {Generated(R, C, s, t) : R \in Dims, C \in Dims, s \in 0..MaxVal, t \in {-1, 1}}
        \cup TestOperands \cup DoubleOperands

InitExpr ==
    /\ mat1 \in Operands
    /\ mat2 \in Operands
    /\ mat3 = NoMatrix
    /\ op = Op("none", "", 0, 0, 0, <<>>)
    /\ thrown = "none"
    /\ value = <<>>
    /\ calls = {}
    /\ touched = {}
    /\ mat = Unused /\ nwrites = Unused
    /\ ObjUnused
    /\ SolversUnused

NextExpr ==
    \/ \E kind \in ExprOps : Materialize(kind)
    \/ \E kind \in ExprOps : Reject(kind)
    \/ \E side \in {"s*", "*s"}, S \in ScalarTypes, s \in ScalarVals :
            MaterializeScaled(side, S, s)

SpecExpr == InitExpr /\ [][NextExpr]_vars

\* ------------------------------------------------------ the scalar double
\* The solvers run on S = double.  A double is modelled by the exact rational
\* <<n, d>> in lowest terms with d > 0, so rounding is not modelled, and by
\* <<1, 0>>, <<-1, 0>> and <<0, 0>> for +infinity, -infinity and NaN.  Zero has
\* no sign: a division by zero takes the sign of its numerator.
GCD[m \in Nat, n \in Nat] == IF n = 0 THEN m ELSE GCD[n, m % n]

\* the pairs that stand for doubles; the operations on them are functions, so
\* that an operand is evaluated once
Doubles == Int \X Int

Abs(n) == IF n < 0 THEN -n ELSE n
Sign(n) == IF n < 0 THEN -1 ELSE IF n > 0 THEN 1 ELSE 0

\* the double n/d
Rat[n \in Int, d \in Int] ==
    LET g == GCD[Abs(n), Abs(d)]
        s == IF d < 0 THEN -1 ELSE 1
    IN  <<(s * n) \div g, (s * d) \div g>>

\* value_type(0), value_type(1) and the special values
RZero == Rat[0, 1]
ROne == Rat[1, 1]
NaN == <<0, 0>>
Inf(sign) == <<sign, 0>>

IsFinite(p) == p[2] # 0
IsNaN(p) == p = NaN

\* p + q
RAdd[p \in Doubles, q \in Doubles] ==
    IF IsFinite(p) /\ IsFinite(q) THEN Rat[p[1] * q[2] + q[1] * p[2], p[2] * q[2]]
    ELSE IF IsNaN(p) \/ IsNaN(q) THEN NaN
    ELSE IF IsFinite(p) THEN q
    ELSE IF IsFinite(q) THEN p
    ELSE IF p = q THEN p ELSE NaN

\* p - q
RSub[p \in Doubles, q \in Doubles] == RAdd[p, <<-q[1], q[2]>>]

\* p * q
RMul[p \in Doubles, q \in Doubles] ==
    IF IsFinite(p) /\ IsFinite(q) THEN Rat[p[1] * q[1], p[2] * q[2]]
    ELSE IF IsNaN(p) \/ IsNaN(q) THEN NaN
    ELSE IF p[1] = 0 \/ q[1] = 0 THEN NaN
    ELSE Inf(Sign(p[1]) * Sign(q[1]))

\* p / q: finite/0 is an infinity, 0/0 and inf/inf are NaN, finite/inf is 0
RDiv[p \in Doubles, q \in Doubles] ==
    IF IsNaN(p) \/ IsNaN(q) THEN NaN
    ELSE IF ~IsFinite(p)
         THEN IF ~IsFinite(q) THEN NaN
              ELSE Inf(IF q[1] < 0 THEN -p[1] ELSE p[1])
    ELSE IF ~IsFinite(q) THEN RZero
    ELSE IF q[1] = 0
         THEN IF p[1] = 0 THEN NaN ELSE Inf(Sign(p[1]))
    ELSE Rat[p[1] * q[2], p[2] * q[1]]

\* std::abs(p)
RAbs[p \in Doubles] == <<Abs(p[1]), p[2]>>

\* p < q: false whenever an operand is NaN
RLess[p \in Doubles, q \in Doubles] ==
    IF IsNaN(p) \/ IsNaN(q) THEN FALSE
    ELSE IF p = q THEN FALSE
    ELSE IF ~IsFinite(p) THEN p[1] < 0
    ELSE IF ~IsFinite(q) THEN q[1] > 0
    ELSE p[1] * q[2] < q[1] * p[2]

\* ------------------------------------------ the members the solvers call
\* the element operator() returns for an index pair inside the matrix
At(m, row, col) == m.m_elements[BufferIndex(m, row, col) + 1]

\* m(row, col) = v
Put(m, row, col, v) == [m EXCEPT !.m_elements[BufferIndex(m, row, col) + 1] = v]

\* zeros() and ones(): std::fill over the whole buffer
Fill(m, v) == [m EXCEPT !.m_elements = [k \in 1..Len(m.m_elements) |-> v]]

\* eye() of a square matrix: all zero, then m_elements[i * C + i] = 1
Eye(m, zero, one) ==
    [m EXCEPT !.m_elements =
        [k \in 1..Len(m.m_elements) |->
            IF \E d \in 0..(m.R - 1) : k = d * m.C + d + 1 THEN one ELSE zero]]

\* ------------------------------------------------------------ LU_doolittle
\* the inner loops "for k = 1; k < j: sum += lower(row, k) * upper(k, col)",
\* entered with sum and k
RECURSIVE LUSum(_, _, _, _, _, _, _)
LUSum(lower, upper, row, col, j, k, sum) ==
    IF k >= j THEN sum
    ELSE LUSum(lower, upper, row, col, j, k + 1,
               RAdd[sum, RMul[At(lower, row, k), At(upper, k, col)]])

\* U(j, i) = A(j, i) - sum
NewU(j, i) == RSub[At(A, j, i), LUSum(L, U, j, i, j, 1, RZero)]

\* NewL without the division by the pivot
NewLNoPivot(i, j) == RSub[At(A, i, j), LUSum(L, U, i, j, j, 1, RZero)]

\* NewL with a check of the pivot the code does not make: a zero pivot leaves 0
NewLGuarded(i, j) ==
    IF At(U, j, j) = RZero THEN RZero
    ELSE RDiv[RSub[At(A, i, j), LUSum(L, U, i, j, j, 1, RZero)], At(U, j, j)]

\* L(i, j) = (A(i, j) - sum) / U(j, j)
NewL(i, j) == RDiv[RSub[At(A, i, j), LUSum(L, U, i, j, j, 1, RZero)], At(U, j, j)]

\* InitialL without the call of eye(): L as the caller left it
InitialLKept == L

\* L.eye() and U.zeros()
InitialL == Eye(L, RZero, ROne)
InitialU == Fill(U, RZero)

\* the call: L.eye(); U.zeros(); and the loops are entered at j = 1, i = j
LU_doolittle ==
    /\ pc = "call"
    /\ L' = InitialL
    /\ U' = InitialU
    /\ loop' = [j |-> 1, i |-> 1]
    /\ pc' = "U"
    /\ op' = Op("LU_doolittle", "", 0, 0, 0, <<>>)
    /\ touched' = {<<"L", k>> : k \in 0..(Len(L.m_elements) - 1)}
                    \cup {<<"U", k>> : k \in 0..(Len(U.m_elements) - 1)}
    /\ UNCHANGED <<A, x, b, x_scratch, max_iterations, tol, iter, err, out>>
    /\ UNCHANGED <<mat, nwrites, objVars, exprVars, iterVars, thrown, value, calls>>

\* one pass of the first inner loop: U(j, i) is written, ++i; after the last
\* column the second inner loop starts at i = j + 1, and with no row left below
\* the pivot (j = R) the outer loop and the call end
LU_WriteU ==
    /\ pc = "U"
    /\ U' = Put(U, loop.j, loop.i, NewU(loop.j, loop.i))
    /\ op' = Op("write", "U", loop.j, loop.i, 0, <<>>)
    /\ touched' = {<<"U", BufferIndex(U, loop.j, loop.i)>>}
    /\ IF loop.i < A.C
       THEN loop' = [loop EXCEPT !.i = loop.i + 1] /\ pc' = "U"
       ELSE IF loop.j < A.R
            THEN loop' = [loop EXCEPT !.i = loop.j + 1] /\ pc' = "L"
            ELSE loop' = [j |-> loop.j + 1, i |-> loop.i + 1] /\ pc' = "done"
    /\ UNCHANGED <<A, L, x, b, x_scratch, max_iterations, tol, iter, err, out>>
    /\ UNCHANGED <<mat, nwrites, objVars, exprVars, iterVars, thrown, value, calls>>

\* one pass of the second inner loop: L(i, j) is written, ++i; after the last
\* row the outer loop goes on with ++j and the first inner loop at i = j
LU_WriteL ==
    /\ pc = "L"
    /\ L' = Put(L, loop.i, loop.j, NewL(loop.i, loop.j))
    /\ op' = Op("write", "L", loop.i, loop.j, 0, <<>>)
    /\ touched' = {<<"L", BufferIndex(L, loop.i, loop.j)>>}
    /\ IF loop.i < A.R
       THEN loop' = [loop EXCEPT !.i = loop.i + 1] /\ pc' = "L"
       ELSE loop' = [j |-> loop.j + 1, i |-> loop.j + 1] /\ pc' = "U"
    /\ UNCHANGED <<A, U, x, b, x_scratch, max_iterations, tol, iter, err, out>>
    /\ UNCHANGED <<mat, nwrites, objVars, exprVars, iterVars, thrown, value, calls>>

\* ------------------------------------------------------------- SpecLU
\* a square matrix of doubles from its integer entries, row-major
Square(N, entries) ==
    MatrixOf("double", N, N, [k \in 1..(N * N) |-> Rat[entries[k], 1]])

\* the coefficient matrices: diagonal d[1], d[2], d[1], ..., u above it, l below
Banded(N, d, u, l) ==
    Square(N, [k \in 1..(N * N) |->
                IF RowOf(k, N) = ColOf(k, N) THEN d[((RowOf(k, N) - 1) % 2) + 1]
                ELSE IF RowOf(k, N) < ColOf(k, N) THEN u ELSE l])

\* the matrix of the README's LU_doolittle call
ReadmeLU == Square(3, <<1, 1, 2, 2, 1, 3, 3, 1, 1>>)

Entries == (-MaxVal)..MaxVal

LUInputs ==
    {Banded(N, <<d1, d2>>, u, l) :
        N \in Dims, d1 \in Entries, d2 \in Entries, u \in Entries, l \in Entries}
        \cup {ReadmeLU}

\* what the caller's L and U hold before the call: zeros (as constructed) or
\* the values of an earlier use
Stale == {RZero, Rat[7, 1]}

InitLU ==
    /\ A \in LUInputs
    /\ \E v \in Stale, w \in Stale :
          /\ L = Fill(MatrixOf("double", A.R, A.C,
                                [k \in 1..(A.R * A.C) |-> RZero]), v)
          /\ U = Fill(MatrixOf("double", A.R, A.C,
                                [k \in 1..(A.R * A.C) |-> RZero]), w)
    /\ loop = [j |-> 0, i |-> 0]
    /\ pc = "call"
    /\ touched = {}
    /\ x = Unused /\ b = Unused /\ x_scratch = Unused
    /\ max_iterations = Unused /\ tol = Unused
    /\ iter = Unused /\ err = Unused /\ out = Unused
    /\ mat = Unused /\ nwrites = Unused
    /\ ObjUnused
    /\ mat1 = Unused /\ mat2 = Unused /\ mat3 = Unused
    /\ op = Op("none", "", 0, 0, 0, <<>>)
    /\ thrown = Unused /\ value = Unused /\ calls = Unused

NextLU == LU_doolittle \/ LU_WriteU \/ LU_WriteL

SpecLU == InitLU /\ [][NextLU]_vars

\* ---------------------------------------------------- solve_jacobi_element
\* x.ones() without the fill: x as the caller left it
InitialXKept == x

\* x.ones()
InitialX == Fill(x, ROne)

\* Matrix<S, R, 1> x_scratch: the default constructor, all zero
DefaultColumn(R) == MatrixOf("double", R, 1, [k \in 1..R |-> RZero])

\* the loop condition with the cap itself allowed
ContinuesInclusive == iter <= max_iterations

\* the loop condition of the iteration loop
Continues == iter < max_iterations

\* "for j = 1; j < R + 1: if (j != i) sum += A(i, j) * x(j, 1)", entered with
\* sum at column col
RECURSIVE JacobiSum(_, _, _)
JacobiSum(row, col, sum) ==
    IF col < A.R + 1
    THEN JacobiSum(row, col + 1,
                   IF col # row
                   THEN RAdd[sum, RMul[At(A, row, col), At(x, col, 1)]]
                   ELSE sum)
    ELSE sum

\* "for i = 1; i < R + 1: x_scratch(i, 1) = (b(i, 1) - sum) / A(i, i)", entered
\* with the scratch vector xs at row
RECURSIVE Sweep(_, _)
Sweep(xs, row) ==
    IF row < A.R + 1
    THEN Sweep(Put(xs, row, 1,
                   RDiv[RSub[At(b, row, 1), JacobiSum(row, 1, RZero)],
                        At(A, row, row)]),
               row + 1)
    ELSE xs

\* "for i = 1; i < R + 1: err += std::abs(x_scratch(i, 1) - x(i, 1))"
RECURSIVE UpdateNorm(_, _, _)
UpdateNorm(xs, row, e) ==
    IF row < A.R + 1
    THEN UpdateNorm(xs, row + 1,
                    RAdd[e, RAbs[RSub[At(xs, row, 1), At(x, row, 1)]]])
    ELSE e

\* the converged branch without its assignment: x stays the previous iterate
ReturnedPrevious(xs) == x

\* "x = x_scratch" of the converged branch
Returned(xs) == xs

\* the call up to the loop: x.ones() and the construction of x_scratch
Jacobi_call ==
    /\ pc = "call"
    /\ x' = InitialX
    /\ x_scratch' = DefaultColumn(A.R)
    /\ iter' = 0
    /\ pc' = "loop"
    /\ op' = Op("solve_jacobi_element", "", A.R, A.C, At(x, 1, 1)[1], <<>>)
    /\ UNCHANGED <<A, L, U, b, max_iterations, tol, err, out, loop>>
    /\ UNCHANGED <<mat, nwrites, objVars, exprVars, iterVars, thrown, value, calls, touched>>

\* one pass of the iteration loop: the sweep, the update norm, the test of
\* err < tol with its report and return, x = x_scratch and ++iter
Jacobi_iteration ==
    /\ pc = "loop"
    /\ Continues
    /\ LET xs == Sweep(x_scratch, 1)
           e == UpdateNorm(xs, 1, RZero)
       IN  /\ x_scratch' = xs
           /\ err' = e
           /\ loop' = [loop EXCEPT !.errs = Append(loop.errs, e)]
           /\ IF RLess[e, tol]
              THEN /\ out' = Append(out, "conv")
                   /\ x' = Returned(xs)
                   /\ iter' = iter
                   /\ pc' = "done"
              ELSE /\ x' = xs
                   /\ iter' = iter + 1
                   /\ out' = out
                   /\ pc' = "loop"
    /\ UNCHANGED <<A, L, U, b, max_iterations, tol>>
    /\ UNCHANGED <<mat, nwrites, objVars, exprVars, iterVars, op, thrown, value, calls, touched>>

\* the loop condition fails: the report after the loop and the return
Jacobi_exhausted ==
    /\ pc = "loop"
    /\ ~Continues
    /\ out' = Append(out, "no conv")
    /\ pc' = "done"
    /\ UNCHANGED <<A, L, U, x, b, x_scratch, max_iterations, tol, iter, err, loop>>
    /\ UNCHANGED <<mat, nwrites, objVars, exprVars, iterVars, op, thrown, value, calls, touched>>

\* ------------------------------------------------------------- SpecJacobi
\* a column of doubles: entries d[1], d[2], d[1], ...
Column(N, d) ==
    MatrixOf("double", N, 1, [k \in 1..N |-> Rat[d[((k - 1) % 2) + 1], 1]])

\* the system of the README's solve_jacobi_element call
ReadmeJacobi == [A |-> Square(2, <<2, 1, 5, 7>>), b |-> Column(2, <<11, 13>>)]

\* the systems of the calls: a zero, small or large diagonal entry next to a
\* large one, full or upper triangular, b zero or not
JacobiSystems ==
    {[A |-> Banded(N, <<d1, d2>>, u, l), b |-> Column(N, <<s, s>>)] :
        N \in Dims, d1 \in 0..MaxVal, d2 \in {-MaxVal, MaxVal},
        u \in {-1, 1}, l \in {0, 1}, s \in {0, 3}}
        \cup {ReadmeJacobi}

Tols == {RZero, ROne, Rat[2, 1]}

InitJacobi ==
    /\ \E sys \in JacobiSystems : A = sys.A /\ b = sys.b
    /\ \E v \in Stale : x = Fill(DefaultColumn(A.R), v)
    /\ max_iterations \in 0..MaxIter
    /\ tol \in Tols
    /\ x_scratch = Unused /\ iter = Unused /\ err = Unused
    /\ out = <<>>
    /\ loop = [errs |-> <<>>]
    /\ pc = "call"
    /\ touched = {}
    /\ L = Unused /\ U = Unused
    /\ mat = Unused /\ nwrites = Unused
    /\ ObjUnused
    /\ mat1 = Unused /\ mat2 = Unused /\ mat3 = Unused
    /\ op = Op("none", "", 0, 0, 0, <<>>)
    /\ thrown = Unused /\ value = Unused /\ calls = Unused

NextJacobi == Jacobi_call \/ Jacobi_iteration \/ Jacobi_exhausted

SpecJacobi == InitJacobi /\ [][NextJacobi]_vars

\* the call runs on: a sequential program takes its next step
SpecJacobiLive == SpecJacobi /\ WF_vars(NextJacobi)

\* ------------------------------------------------- the life of Matrix objects
\* the two objects; both are of one type Matrix<int,R,C>, as a copy requires
Names == {"mat1", "mat2"}

\* lao::linalg::Matrix of lao/linalg/dense/matrix.hpp, and lao::Matrix of the
\* older header, which has a partial specialization Matrix<S,1,1>; of the
\* older class only the fill constructor and eye() are modelled
Headers == {"lao::linalg", "lao"}

\* the fill policies; "default" is Matrix() without a policy; filltype::rand
\* is left out
FillTypes == {"default", "zeros", "ones", "eye", "none"}

\* whether the class is the specialization Matrix<S,1,1> of the older header
Specialized(hdr, R, C) == hdr = "lao" /\ R = 1 /\ C = 1

\* what Matrix(filltype fill) throws: eye() throws std::logic_error unless
\* R == C; the constructor of Matrix<S,1,1> has no branch for filltype::eye and
\* ends in throw std::invalid_argument
FillThrows(hdr, R, C, fill) ==
    IF fill # "eye" THEN "none"
    ELSE IF Specialized(hdr, R, C) THEN "invalid_argument"
    ELSE IF R # C THEN "logic_error"
    ELSE "none"

\* the object Matrix(filltype fill) constructs: m_elements(R * C, 0), then
\* zeros(), ones(), eye() or nothing
FillConstructed(R, C, fill) ==
    CASE fill = "ones" -> Fill(DefaultMatrix(R, C), 1)
      [] fill = "eye"  -> Eye(DefaultMatrix(R, C), 0, 1)
      [] fill = "zeros" -> Fill(DefaultMatrix(R, C), 0)
      [] OTHER         -> DefaultMatrix(R, C)

\* what eye() throws: Matrix<S,1,1>::eye() always throws, the primary
\* template throws unless R == C
EyeThrows(hdr, m) ==
    IF Specialized(hdr, m.R, m.C) \/ m.R # m.C THEN "logic_error" ELSE "none"

\* the buffer positions eye() stores a one at
EyeWrites(m) == {i * m.C + i : i \in 0..(m.R - 1)}

\* name = new, the other object as it was
Assigned(name, new) ==
    /\ mat1' = IF name = "mat1" THEN new ELSE mat1
    /\ mat2' = IF name = "mat2" THEN new ELSE mat2

\* Matrix<int,R,C> mat1(fill), or Matrix<int,R,C> mat1 for "default"
ConstructFill(hdr, R, C, fill) ==
    /\ op.name = "none"
    /\ op' = Op("construct_fill", fill, R, C, 0, <<>>)
    /\ header' = hdr
    /\ thrown' = FillThrows(hdr, R, C, fill)
    /\ IF FillThrows(hdr, R, C, fill) = "none"
       THEN /\ mat1' = FillConstructed(R, C, fill)
            /\ touched' = {<<"mat1", i>> : i \in 0..(R * C - 1)}
       ELSE /\ mat1' = NoMatrix
            /\ touched' = {}
    /\ calls' = {}
    /\ value' = <<>>
    /\ UNCHANGED <<mat, nwrites, expr, resets, mat2, mat3, solverVars, iterVars>>

\* what every mutating call on the object name shares
MutatingCall(name, method, v) ==
    /\ Env[name] # NoMatrix
    /\ nwrites < MaxCalls
    /\ nwrites' = nwrites + 1
    /\ op' = Op(method, name, 0, 0, v, <<>>)
    /\ calls' = {}
    /\ value' = <<>>
    /\ UNCHANGED <<mat, header, expr, mat3, solverVars, iterVars>>

\* Matrix<int,R,C> mat2, of the type of mat1
ConstructSecond ==
    /\ header = "lao::linalg"
    /\ mat1 # NoMatrix /\ mat2 = NoMatrix
    /\ op' = Op("construct", "mat2", mat1.R, mat1.C, 0, <<>>)
    /\ mat2' = DefaultMatrix(mat1.R, mat1.C)
    /\ thrown' = "none"
    /\ calls' = {}
    /\ value' = <<>>
    /\ touched' = {<<"mat2", i>> : i \in 0..(mat1.R * mat1.C - 1)}
    /\ UNCHANGED <<mat, nwrites, objVars, mat1, mat3, solverVars, iterVars>>

\* Copied with the copy constructor left as the default constructor
CopiedDefault(other) == DefaultMatrix(other.R, other.C)

\* Matrix(const Matrix& other): m_elements(other.m_elements)
Copied(other) == [other EXCEPT !.m_elements = other.m_elements]

\* Matrix<int,R,C> mat2(mat1)
CopyConstruct ==
    /\ header = "lao::linalg"
    /\ mat1 # NoMatrix /\ mat2 = NoMatrix
    /\ op' = Op("copy_construct", "mat2", mat1.R, mat1.C, 0, <<>>)
    /\ mat2' = Copied(mat1)
    /\ thrown' = "none"
    /\ calls' = {}
    /\ value' = <<>>
    /\ touched' = {<<nm, i>> : nm \in Names, i \in 0..(Len(mat1.m_elements) - 1)}
    /\ UNCHANGED <<mat, nwrites, objVars, mat1, mat3, solverVars, iterVars>>

\* operator=(const Matrix& other): if (&other != this) m_elements = other.m_elements
CopyAssigned(this, other, same) ==
    IF same THEN this ELSE [this EXCEPT !.m_elements = other.m_elements]

\* dst = src; the operation record holds the source in lens
CopyAssign(dst, src) ==
    /\ header = "lao::linalg"
    /\ Env[src] # NoMatrix
    /\ Env[dst] # NoMatrix
    /\ nwrites < MaxCalls
    /\ nwrites' = nwrites + 1
    /\ op' = Op("copy_assign", dst, 0, 0, 0, <<src>>)
    /\ calls' = {}
    /\ value' = <<>>
    /\ UNCHANGED <<mat, header, expr, mat3, solverVars, iterVars>>
    /\ Assigned(dst, CopyAssigned(Env[dst], Env[src], dst = src))
    /\ thrown' = "none"
    /\ touched' = IF dst = src THEN {}
                  ELSE {<<src, i>> : i \in 0..(Len(Env[src].m_elements) - 1)}
                         \cup {<<dst, i>> : i \in 0..(Len(Env[src].m_elements) - 1)}
    /\ UNCHANGED resets

\* name.zeros()
Call_zeros(name) ==
    /\ header = "lao::linalg"
    /\ MutatingCall(name, "zeros", 0)
    /\ Assigned(name, Fill(Env[name], 0))
    /\ thrown' = "none"
    /\ touched' = {<<name, i>> : i \in 0..(Len(Env[name].m_elements) - 1)}
    /\ UNCHANGED resets

\* name.ones()
Call_ones(name) ==
    /\ header = "lao::linalg"
    /\ MutatingCall(name, "ones", 0)
    /\ Assigned(name, Fill(Env[name], 1))
    /\ thrown' = "none"
    /\ touched' = {<<name, i>> : i \in 0..(Len(Env[name].m_elements) - 1)}
    /\ UNCHANGED resets

\* name.fill(v)
Call_fill(name, v) ==
    /\ header = "lao::linalg"
    /\ MutatingCall(name, "fill", v)
    /\ Assigned(name, Fill(Env[name], v))
    /\ thrown' = "none"
    /\ touched' = {<<name, i>> : i \in 0..(Len(Env[name].m_elements) - 1)}
    /\ UNCHANGED resets

\* name.eye()
Call_eye(name) ==
    LET m == Env[name]
    IN  /\ MutatingCall(name, "eye", 0)
        /\ IF EyeThrows(header, m) # "none"
           THEN /\ thrown' = EyeThrows(header, m)
                /\ touched' = {}
                /\ Assigned(name, m)
           ELSE /\ touched' = {<<name, i>> : i \in EyeWrites(m)}
                /\ Assigned(name, Eye(m, 0, 1))
                /\ IF \A i \in EyeWrites(m) : InBuffer(m, i)
                   THEN thrown' = "none"
                   \* the buffer was emptied by reset(): the stores land
                   \* outside the vector, undefined behaviour
                   ELSE thrown' \in {"none", "segv"}
        /\ UNCHANGED resets

\* a generator handed to fillf: a lambda with a static counter val that
\* returns val++, or a lambda that returns the same value at every call
Counter(start) == [kind |-> "counter", val |-> start]
Constant(v) == [kind |-> "constant", val |-> v]

\* lambda(): the value returned and the generator after the call
Invoke(gen) ==
    [ret  |-> gen.val,
     next |-> IF gen.kind = "counter" THEN [gen EXCEPT !.val = @ + 1] ELSE gen]

\* FillfLoop with lambda() called once, before the loop
FillfLoopCallsOnce(buf, i, gen, trace) ==
    [buf   |-> [k \in 1..Len(buf) |-> gen.val],
     gen   |-> Invoke(gen).next,
     trace |-> IF Len(buf) = 0 THEN <<>> ELSE <<gen.val>>]

\* for (size_t i = 0; i < m_elements.size(); ++i) m_elements[i] = lambda();
\* entered with i; trace is the sequence of values lambda() has returned
RECURSIVE FillfLoop(_, _, _, _)
FillfLoop(buf, i, gen, trace) ==
    IF i >= Len(buf) THEN [buf |-> buf, gen |-> gen, trace |-> trace]
    ELSE FillfLoop([buf EXCEPT ![i + 1] = Invoke(gen).ret], i + 1,
                   Invoke(gen).next, Append(trace, Invoke(gen).ret))

\* the operation record of fillf: the generator handed over
OpFillf(name, gen) ==
    [name |-> "fillf", kind |-> name, row |-> 0, col |-> 0, v |-> 0,
     lens |-> <<>>, gen |-> gen]

\* name.fillf(gen); calls holds <<"lambda", k, v>> for the k-th call of the
\* generator, which returned v
Call_fillf(name, gen) ==
    LET done == FillfLoop(Env[name].m_elements, 0, gen, <<>>)
    IN  /\ header = "lao::linalg"
        /\ Env[name] # NoMatrix
        /\ nwrites < MaxCalls
        /\ nwrites' = nwrites + 1
        /\ op' = OpFillf(name, gen)
        /\ Assigned(name, [Env[name] EXCEPT !.m_elements = done.buf])
        /\ calls' = {<<"lambda", k, done.trace[k]>> : k \in 1..Len(done.trace)}
        /\ touched' = {<<name, i>> : i \in 0..(Len(Env[name].m_elements) - 1)}
        /\ thrown' = "none"
        /\ value' = <<>>
        /\ UNCHANGED <<mat, header, expr, resets, mat3, solverVars, iterVars>>

\* name.reset(): m_elements.clear()
Call_reset(name) ==
    /\ header = "lao::linalg"
    /\ MutatingCall(name, "reset", 0)
    /\ Assigned(name, [Env[name] EXCEPT !.m_elements = <<>>])
    /\ thrown' = "none"
    /\ touched' = {}
    /\ resets' = resets \cup {name}

\* name.is_empty(): m_elements.empty(), as 1 or 0
Call_is_empty(name) ==
    /\ header = "lao::linalg"
    /\ Env[name] # NoMatrix
    /\ op' = Op("is_empty", name, 0, 0, 0, <<>>)
    /\ value' = <<BoolToS(Len(Env[name].m_elements) = 0)>>
    /\ thrown' = "none"
    /\ calls' = {}
    /\ touched' = {}
    /\ UNCHANGED <<mat, nwrites, objVars, exprVars, solverVars, iterVars>>

\* name(row, col) on a const object, then a read of the reference
Call_read(name, row, col) ==
    LET m   == Env[name]
        idx == BufferIndex(m, row, col)
    IN  /\ header = "lao::linalg"
        /\ m # NoMatrix
        /\ op' = Op("read", name, row, col, 0, <<>>)
        /\ calls' = {<<name, row, col>>}
        /\ IF AccessThrows(m, row, col)
           THEN thrown' = "out_of_range" /\ value' = <<>> /\ touched' = {}
           ELSE /\ touched' = {<<name, idx>>}
                /\ IF InBuffer(m, idx)
                   THEN thrown' = "none" /\ value' = <<m.m_elements[idx + 1]>>
                   \* m_elements[idx] outside the vector, which is empty after
                   \* reset(): undefined behaviour, the read returns what is
                   \* stored there or the process is stopped
                   ELSE \/ \E g \in Garbage : thrown' = "none" /\ value' = <<g>>
                        \/ thrown' = "segv" /\ value' = <<>>
        /\ UNCHANGED <<mat, nwrites, objVars, exprVars, solverVars, iterVars>>

\* name(row, col) = v
Call_write(name, row, col, v) ==
    LET m   == Env[name]
        idx == BufferIndex(m, row, col)
    IN  /\ header = "lao::linalg"
        /\ m # NoMatrix
        /\ nwrites < MaxCalls
        /\ nwrites' = nwrites + 1
        /\ op' = Op("write", name, row, col, v, <<>>)
        /\ calls' = {<<name, row, col>>}
        /\ value' = <<>>
        /\ IF AccessThrows(m, row, col)
           THEN thrown' = "out_of_range" /\ touched' = {} /\ Assigned(name, m)
           ELSE /\ touched' = {<<name, idx>>}
                /\ IF InBuffer(m, idx)
                   THEN thrown' = "none" /\ Assigned(name, Put(m, row, col, v))
                   \* a store outside the vector: undefined behaviour, the
                   \* object itself keeps its elements
                   ELSE thrown' \in {"none", "segv"} /\ Assigned(name, m)
        /\ UNCHANGED <<mat, header, expr, resets, mat3, solverVars, iterVars>>

\* no expression node has been built
NoExpr == <<>>

\* Referenced with the node holding the operands as they were when it was built
ReferencedAtBuild(built, now) == built

\* the objects the members m_lhs and m_rhs of a node lead to: they are
\* references, so the operands as they are now, not as they were when the
\* node was built
Referenced(built, now) == now

\* auto e = mat1 <kind> mat2; expr holds the node and, as history, the
\* operands at the time of the construction
Build(kind) ==
    LET e == Node(kind, Leaf("mat1"), Leaf("mat2"))
    IN  /\ header = "lao::linalg"
        /\ mat1 # NoMatrix /\ mat2 # NoMatrix
        /\ expr = NoExpr
        /\ Accepted(e, Env)
        /\ expr' = [node |-> e, built |-> Env]
        /\ op' = Op("build", kind, 0, 0, 0, <<>>)
        /\ thrown' = "none"
        /\ value' = <<>>
        /\ calls' = {}
        /\ touched' = {}
        /\ UNCHANGED <<mat, nwrites, header, resets, exprVars, solverVars, iterVars>>

\* e(row, col)
Evaluate(row, col) ==
    LET env == Referenced(expr.built, Env)
        cs  == ExprCalls(expr.node, env, row, col)
        ts  == {<<c[1], BufferIndex(env[c[1]], c[2], c[3])>> : c \in cs}
    IN  /\ expr # NoExpr
        /\ op' = Op("evaluate", expr.node.kind, row, col, 0, <<>>)
        /\ calls' = cs
        /\ IF \E c \in cs : AccessThrows(env[c[1]], c[2], c[3])
           THEN thrown' = "out_of_range" /\ value' = <<>> /\ touched' = {}
           ELSE /\ touched' = ts
                /\ IF \A t \in ts : InBuffer(env[t[1]], t[2])
                   THEN /\ thrown' = "none"
                        /\ value' = <<Eval(expr.node, env, row, col, 0)>>
                   \* an operand read lies outside its vector: undefined
                   \* behaviour
                   ELSE \/ \E g \in Garbage :
                            /\ thrown' = "none"
                            /\ value' = <<Eval(expr.node, env, row, col, g)>>
                        \/ thrown' = "segv" /\ value' = <<>>
        /\ UNCHANGED <<mat, nwrites, objVars, exprVars, solverVars, iterVars>>

\* ------------------------------------------------------------- SpecObj
\* the operators of the nodes built over the two objects
BuildKinds == {"+"}
FillVals == {5}
Generators == {Counter(1), Constant(5)}
\* the index pairs tried on the objects: (0, 0), the first element, the last
\* row of the largest shape, and a row beyond every shape
ObjCoords == {<<0, 0>>, <<1, 1>>, <<MaxDim, 1>>, <<MaxDim + 2, 1>>}

InitObj ==
    /\ mat1 = NoMatrix /\ mat2 = NoMatrix /\ mat3 = NoMatrix
    /\ nwrites = 0
    /\ header = "lao::linalg"
    /\ expr = NoExpr
    /\ resets = {}
    /\ it = Unused /\ stop = Unused /\ scratch = Unused
    /\ op = Op("none", "", 0, 0, 0, <<>>)
    /\ thrown = "none"
    /\ value = <<>>
    /\ calls = {}
    /\ touched = {}
    /\ mat = Unused
    /\ SolversUnused

NextObj ==
    \/ \E hdr \in Headers, R \in Dims, C \in Dims, fill \in FillTypes :
            ConstructFill(hdr, R, C, fill)
    \/ ConstructSecond
    \/ CopyConstruct
    \/ \E dst \in Names, src \in Names : CopyAssign(dst, src)
    \/ \E name \in Names : Call_zeros(name)
    \/ \E name \in Names : Call_ones(name)
    \/ \E name \in Names, v \in FillVals : Call_fill(name, v)
    \/ \E name \in Names : Call_eye(name)
    \/ \E name \in Names, gen \in Generators : Call_fillf(name, gen)
    \/ \E name \in Names : Call_reset(name)
    \/ \E name \in Names : Call_is_empty(name)
    \* reads of an object that was never reset are the subject of Spec
    \/ \E name \in resets, rc \in ObjCoords : Call_read(name, rc[1], rc[2])
    \/ \E name \in Names, rc \in ObjCoords, v \in WriteVals :
            Call_write(name, rc[1], rc[2], v)

SpecObj == InitObj /\ [][NextObj]_vars

\* ------------------------------------------------------------- SpecNode
\* an expression node over the two objects, evaluated element by element
\* while the objects are overwritten, assigned to and reset
NextNode ==
    \/ \E R \in Dims, C \in Dims, fill \in FillTypes :
            ConstructFill("lao::linalg", R, C, fill)
    \/ ConstructSecond
    \/ \E kind \in BuildKinds : Build(kind)
    \/ \E rc \in ObjCoords : Evaluate(rc[1], rc[2])
    \/ \E name \in Names, v \in FillVals : Call_fill(name, v)
    \/ \E name \in Names, rc \in ObjCoords, v \in WriteVals :
            Call_write(name, rc[1], rc[2], v)
    \/ \E name \in Names : Call_reset(name)

SpecNode == InitObj /\ [][NextNode]_vars

\* ------------------------------------------------- RowIterator, ColIterator
\* an iterator: its class and its members current_row, current_col; the
\* member matrix_ref always refers to mat
RowIterator(row, col) == [kind |-> "row", current_row |-> row, current_col |-> col]
ColIterator(row, col) == [kind |-> "col", current_row |-> row, current_col |-> col]

\* no iterator in hand, no loop running
NoIterator == <<>>

IteratorCalls == {"row_begin", "row_end", "col_begin", "col_end"}

\* the guard of row_begin, row_end (row > R + 1) and of col_begin, col_end
\* (col > C + 1), as written in the source
IteratorThrows(fn, idx, m) ==
    IF fn \in {"row_begin", "row_end"} THEN idx > m.R + 1 ELSE idx > m.C + 1

\* MadeIterator with row_end and col_end one position past the last element
MadeIteratorPastTheEnd(fn, idx, m) ==
    CASE fn = "row_begin" -> RowIterator(idx, 1)
      [] fn = "row_end"   -> RowIterator(idx, m.C + 1)
      [] fn = "col_begin" -> ColIterator(1, idx)
      [] fn = "col_end"   -> ColIterator(m.R + 1, idx)

\* the iterator each of the four member functions returns
MadeIterator(fn, idx, m) ==
    CASE fn = "row_begin" -> RowIterator(idx, 1)
      [] fn = "row_end"   -> RowIterator(idx, m.C)
      [] fn = "col_begin" -> ColIterator(1, idx)
      [] fn = "col_end"   -> ColIterator(m.R, idx)

\* IteratorEnd with end() at the last element, as row_end and col_end have it
IteratorEndAtLast(i, m) ==
    IF i.kind = "row" THEN RowIterator(i.current_row, m.C)
    ELSE ColIterator(m.R, i.current_col)

\* RowIterator::end() and ColIterator::end(), which a range-based for calls
IteratorEnd(i, m) ==
    IF i.kind = "row" THEN RowIterator(i.current_row, m.C + 1)
    ELSE ColIterator(m.R + 1, i.current_col)

\* operator++
Incremented(i) ==
    IF i.kind = "row" THEN [i EXCEPT !.current_col = @ + 1]
    ELSE [i EXCEPT !.current_row = @ + 1]

\* the running loop: its end iterator, the iterator it started from, and its
\* form: "range" for (auto v : i), "explicit" for (; i != end; ++i)
Loop(last, first, form) == [last |-> last, first |-> first, form |-> form]

\* mat.row_begin(idx), mat.row_end(idx), mat.col_begin(idx), mat.col_end(idx)
Call_iterator(fn, idx) ==
    /\ mat # NoMatrix
    /\ op' = Op(fn, "", idx, 0, 0, <<>>)
    /\ IF IteratorThrows(fn, idx, mat)
       THEN thrown' = "out_of_range" /\ it' = NoIterator
       ELSE thrown' = "none" /\ it' = MadeIterator(fn, idx, mat)
    /\ stop' = NoIterator
    /\ scratch' = <<>>
    /\ value' = <<>>
    /\ calls' = {}
    /\ touched' = {}
    /\ UNCHANGED <<mat, nwrites, objVars, exprVars, solverVars>>

\* what operator*() of the iterator i does: matrix_ref(current_row, current_col)
\* through the mutable operator(); g and crash choose the outcome of an
\* access outside the vector, which is undefined behaviour
DerefThrown(i, crash) ==
    IF AccessThrows(mat, i.current_row, i.current_col) THEN "out_of_range"
    ELSE IF InBuffer(mat, BufferIndex(mat, i.current_row, i.current_col)) THEN "none"
    ELSE IF crash THEN "segv" ELSE "none"

DerefValue(i, g) ==
    IF InBuffer(mat, BufferIndex(mat, i.current_row, i.current_col))
    THEN mat.m_elements[BufferIndex(mat, i.current_row, i.current_col) + 1]
    ELSE g

DerefTouched(i) ==
    IF AccessThrows(mat, i.current_row, i.current_col) THEN {}
    ELSE {<<"mat", BufferIndex(mat, i.current_row, i.current_col)>>}

\* *i, for the iterator in hand
Deref ==
    /\ it # NoIterator /\ stop = NoIterator
    /\ op' = Op("deref", it.kind, it.current_row, it.current_col, 0, <<>>)
    /\ calls' = {<<"mat", it.current_row, it.current_col>>}
    /\ touched' = DerefTouched(it)
    /\ \E g \in Garbage, crash \in BOOLEAN :
        /\ thrown' = DerefThrown(it, crash)
        /\ value' = IF DerefThrown(it, crash) = "none" THEN <<DerefValue(it, g)>> ELSE <<>>
    /\ UNCHANGED <<mat, nwrites, objVars, iterVars, exprVars, solverVars>>

\* for (auto v : i) scratch.push_back(v): the loop calls i.begin() and i.end()
RangeFor ==
    /\ it # NoIterator /\ stop = NoIterator
    /\ op' = Op("range_for", it.kind, it.current_row, it.current_col, 0, <<>>)
    /\ stop' = Loop(IteratorEnd(it, mat), it, "range")
    /\ scratch' = <<>>
    /\ thrown' = "none"
    /\ value' = <<>>
    /\ calls' = {}
    /\ touched' = {}
    /\ UNCHANGED <<mat, nwrites, objVars, it, exprVars, solverVars>>

\* for (; i != mat.row_end(r); ++i) scratch.push_back(*i), with i from
\* row_begin(r); likewise with col_end(c); the guard of row_end(r) is the
\* guard row_begin(r) has passed
ExplicitFor ==
    LET fn == IF it.kind = "row" THEN "row_end" ELSE "col_end"
        idx == IF it.kind = "row" THEN it.current_row ELSE it.current_col
    IN  /\ it # NoIterator /\ stop = NoIterator
        /\ op' = Op("explicit_for", it.kind, it.current_row, it.current_col, 0, <<>>)
        /\ stop' = Loop(MadeIterator(fn, idx, mat), it, "explicit")
        /\ scratch' = <<>>
        /\ thrown' = "none"
        /\ value' = <<>>
        /\ calls' = {}
        /\ touched' = {}
        /\ UNCHANGED <<mat, nwrites, objVars, it, exprVars, solverVars>>

\* one pass of the running loop: i != end, then *i, push_back, ++i
LoopStep ==
    /\ stop # NoIterator
    /\ it # NoIterator
    /\ it # stop.last
    /\ op' = Op("step", it.kind, it.current_row, it.current_col, 0, <<>>)
    /\ calls' = {<<"mat", it.current_row, it.current_col>>}
    /\ touched' = DerefTouched(it)
    /\ value' = <<>>
    /\ \E g \in Garbage, crash \in BOOLEAN :
        /\ thrown' = DerefThrown(it, crash)
        /\ IF DerefThrown(it, crash) = "none"
           THEN /\ scratch' = Append(scratch, DerefValue(it, g))
                /\ it' = Incremented(it)
           \* the exception, or the crash, ends the loop
           ELSE scratch' = scratch /\ it' = NoIterator
    /\ UNCHANGED <<mat, nwrites, objVars, stop, exprVars, solverVars>>

\* ------------------------------------------------------------- SpecIter
\* the matrix the iterators run over holds 1, 2, 3, ... in row-major order
InitIter ==
    /\ mat \in {Generated(R, C, 1, 1) : R \in Dims, C \in Dims}
    /\ nwrites = 0
    /\ it = NoIterator /\ stop = NoIterator /\ scratch = <<>>
    /\ header = Unused /\ expr = Unused /\ resets = Unused
    /\ op = Op("none", "", 0, 0, 0, <<>>)
    /\ thrown = "none"
    /\ value = <<>>
    /\ calls = {}
    /\ touched = {}
    /\ mat1 = Unused /\ mat2 = Unused /\ mat3 = Unused
    /\ SolversUnused

NextIter ==
    \/ \E fn \in IteratorCalls, idx \in Indices : Call_iterator(fn, idx)
    \/ Deref
    \/ RangeFor
    \/ ExplicitFor
    \/ LoopStep

SpecIter == InitIter /\ [][NextIter]_vars

\* ------------------------------------------- D = <expression> in one statement
\* the statements: A, B and C are mat1, mat2 and mat3; the operators associate
\* left to right and * binds tighter than + and -
Forms == {"A+B+C-B", "A+B-B", "A*B*C+B", "A*B", "A+A"}

Expression(form) ==
    CASE form = "A+B+C-B" ->
            Node("-", Node("+", Node("+", Leaf("mat1"), Leaf("mat2")), Leaf("mat3")),
                 Leaf("mat2"))
      [] form = "A+B-B" ->
            Node("-", Node("+", Leaf("mat1"), Leaf("mat2")), Leaf("mat2"))
      [] form = "A*B*C+B" ->
            Node("+", Node("*", Node("*", Leaf("mat1"), Leaf("mat2")), Leaf("mat3")),
                 Leaf("mat2"))
      [] form = "A*B" -> Node("*", Leaf("mat1"), Leaf("mat2"))
      [] form = "A+A" -> Node("+", Leaf("mat1"), Leaf("mat1"))

\* the objects of the statement: the operands and a destination mat that is
\* none of them
Objects == [mat |-> mat, mat1 |-> mat1, mat2 |-> mat2, mat3 |-> mat3]

\* every operator call of the expression compiles
RECURSIVE WellFormed(_, _)
WellFormed(e, env) ==
    IF e.kind = "leaf" THEN TRUE
    ELSE /\ WellFormed(e.lhs, env)
         /\ WellFormed(e.rhs, env)
         /\ Accepted(e, env)

\* whether dst = e compiles: the converting constructor takes a
\* MatrixExpression<E, S, R, C> with the destination's own S, R and C; the
\* destination mat is declared with the shape of the expression
Assignable(dst, e, env) ==
    /\ WellFormed(e, env)
    /\ dst # "mat" =>
          /\ ExprS(e, env) = env[dst].S
          /\ ExprRows(e, env) = env[dst].R
          /\ ExprCols(e, env) = env[dst].C

\* the expression evaluated element by element straight into the buffer of
\* the destination, without the temporary
RECURSIVE WrittenInPlace(_, _, _, _, _)
WrittenInPlace(dst, e, env, g, k) ==
    IF k > env[dst].R * env[dst].C THEN env[dst]
    ELSE WrittenInPlace(dst, e,
            [env EXCEPT ![dst].m_elements[k] =
                Eval(e, env, RowOf(k, env[dst].C), ColOf(k, env[dst].C), g)],
            g, k + 1)

\* AssignedValue without the temporary, for a destination that is an operand
AssignedInPlace(dst, e, env, g) ==
    IF dst = "mat" THEN FromExpression(e, env, g)
    ELSE WrittenInPlace(dst, e, env, g, 1)

\* dst = e: the converting constructor builds a temporary Matrix from e, then
\* operator= copies the temporary's m_elements into the destination
AssignedValue(dst, e, env, g) ==
    IF dst = "mat" THEN FromExpression(e, env, g)
    ELSE [env[dst] EXCEPT !.m_elements = FromExpression(e, env, g).m_elements]

\* Stored with the first operand taken for the destination
StoredInFirstOperand(dst, new, objs) == [objs EXCEPT !["mat1"] = new]

\* the objects after the assignment: the destination holds the new value
Stored(dst, new, objs) == [objs EXCEPT ![dst] = new]

\* the operation record of an assignment statement
OpAssign(name, form, dst) == Op(name, form, 0, 0, 0, <<dst>>)

\* the statement dst = <form>
Assign(dst, form) ==
    LET e  == Expression(form)
        cs == MaterializeCalls(e, Objects)
        ts == {<<c[1], BufferIndex(Objects[c[1]], c[2], c[3])>> : c \in cs}
    IN  /\ op.name = "none"
        /\ Assignable(dst, e, Objects)
        /\ op' = OpAssign("assign", form, dst)
        /\ calls' = cs
        /\ value' = <<>>
        /\ IF \E c \in cs : AccessThrows(Objects[c[1]], c[2], c[3])
           THEN /\ thrown' = "out_of_range" /\ touched' = {}
                /\ UNCHANGED <<mat, exprVars>>
           ELSE /\ thrown' = "none"
                /\ touched' = ts
                \* an operand read outside its vector is undefined behaviour:
                \* the read returns whatever is stored there
                /\ \E g \in IF \A t \in ts : InBuffer(Objects[t[1]], t[2])
                            THEN {0} ELSE Garbage :
                      LET new == Stored(dst, AssignedValue(dst, e, Objects, g), Objects)
                      IN  /\ mat' = new.mat
                          /\ mat1' = new.mat1
                          /\ mat2' = new.mat2
                          /\ mat3' = new.mat3
        /\ UNCHANGED <<nwrites, objVars, solverVars, iterVars>>

\* the statement does not compile
RejectAssign(dst, form) ==
    /\ op.name = "none"
    /\ ~Assignable(dst, Expression(form), Objects)
    /\ op' = OpAssign("reject", form, dst)
    /\ thrown' = "ill_formed"
    /\ calls' = {}
    /\ touched' = {}
    /\ value' = <<>>
    /\ UNCHANGED <<mat, nwrites, objVars, exprVars, solverVars, iterVars>>

\* ------------------------------------------------------------- SpecAssign
\* the operands of TEST_F(MatrixTest, CombinedOperations), of the README's
\* D = A + B + C - B, and generated ones of every shape
AssignOperands ==
    TestOperands
        \cup {Matrix(2, 2, <<9, 10, 11, 12>>)}
        \cup {MatrixOf("double", 1, 2, <<5, 6>>), MatrixOf("double", 1, 2, <<2, 3>>),
              MatrixOf("double", 1, 2, <<3, 1>>)}
        \cup {Generated(R, C, MaxVal, 1) : R \in Dims, C \in Dims}

Destinations == {"mat", "mat1"}

InitAssign ==
    /\ mat1 \in AssignOperands
    /\ mat2 \in AssignOperands
    /\ mat3 \in AssignOperands
    /\ mat = NoMatrix
    /\ op = Op("none", "", 0, 0, 0, <<>>)
    /\ thrown = "none"
    /\ value = <<>>
    /\ calls = {}
    /\ touched = {}
    /\ nwrites = Unused
    /\ ObjUnused
    /\ SolversUnused

NextAssign ==
    \/ \E dst \in Destinations, form \in Forms : Assign(dst, form)
    \/ \E dst \in Destinations, form \in Forms : RejectAssign(dst, form)

SpecAssign == InitAssign /\ [][NextAssign]_vars

\* ----------------------------------------------------------- newtonRaphson
\* the callables F and dF of a call, by the name of the function F
NewtonF(name, p) ==
    CASE name = "x-1"      -> RSub[p, ROne]
      [] name = "x^2"      -> RMul[p, p]
      [] name = "x^3-2x+2" ->
            RAdd[RSub[RMul[p, RMul[p, p]], RMul[Rat[2, 1], p]], Rat[2, 1]]

NewtonDF(name, p) ==
    CASE name = "x-1"      -> ROne
      [] name = "x^2"      -> RMul[Rat[2, 1], p]
      [] name = "x^3-2x+2" -> RSub[RMul[Rat[3, 1], RMul[p, p]], Rat[2, 1]]

\* std::max(p, q): q when p < q, else p
StdMax(p, q) == IF RLess[p, q] THEN q ELSE p

\* term = F(x) / dF(x)
Term(name, p) == RDiv[NewtonF(name, p), NewtonDF(name, p)]

\* std::fabs(term / std::max(std::fabs(x), 1.0)) > accuracy, x already updated
NotAccurate(term, p, accuracy) ==
    RLess[accuracy, RAbs[RDiv[term, StdMax(RAbs[p], ROne)]]]

\* the iterations a behaviour of the model follows a call for
IterCap == MaxIter + 2

\* one pass of the do-while loop: the body, then the condition, whose
\* --max_iterations is evaluated only when the accuracy test is true
Newton_iteration ==
    /\ pc = "do"
    /\ iter < IterCap
    /\ LET term == Term(loop.F, x)
           next == RSub[x, term]
       IN  /\ err' = term
           /\ x' = next
           /\ iter' = iter + 1
           /\ IF NotAccurate(term, next, tol)
              THEN /\ max_iterations' = max_iterations - 1
                   /\ pc' = IF max_iterations - 1 # 0 THEN "do" ELSE "return"
              ELSE /\ max_iterations' = max_iterations
                   /\ pc' = "return"
    /\ UNCHANGED <<A, L, U, b, x_scratch, tol, out, loop>>
    /\ UNCHANGED <<mat, nwrites, objVars, exprVars, iterVars, op, thrown, value, calls, touched>>

\* return max_iterations
Newton_return ==
    /\ pc = "return"
    /\ out' = <<max_iterations>>
    /\ pc' = "done"
    /\ UNCHANGED <<A, L, U, x, b, x_scratch, max_iterations, tol, iter, err, loop>>
    /\ UNCHANGED <<mat, nwrites, objVars, exprVars, iterVars, op, thrown, value, calls, touched>>

\* ------------------------------------------------------------- SpecNewton
\* the functions and starting points of the calls: x - 1 is solved in one
\* step, x^2 halves x in every step (and divides 0 by 0 at x = 0), and
\* x^3 - 2x + 2 alternates between 0 and 1
NewtonCalls ==
    ({"x-1", "x^2"} \X {Rat[n, 1] : n \in 0..MaxVal})
        \cup ({"x^3-2x+2"} \X {RZero, ROne})

Accuracies == {Rat[1, 100], Rat[1, 2]}

InitNewton ==
    /\ \E c \in NewtonCalls, limit \in 0..MaxIter :
          /\ x = c[2]
          /\ loop = [F |-> c[1], limit |-> limit]
          /\ max_iterations = limit
    /\ tol \in Accuracies
    /\ iter = 0
    /\ err = RZero
    /\ out = <<>>
    /\ pc = "do"
    /\ A = Unused /\ L = Unused /\ U = Unused
    /\ b = Unused /\ x_scratch = Unused
    /\ touched = {}
    /\ mat = Unused /\ nwrites = Unused
    /\ ObjUnused
    /\ mat1 = Unused /\ mat2 = Unused /\ mat3 = Unused
    /\ op = Op("none", "", 0, 0, 0, <<>>)
    /\ thrown = Unused /\ value = Unused /\ calls = Unused

NextNewton == Newton_iteration \/ Newton_return

SpecNewton == InitNewton /\ [][NextNewton]_vars

\* ------------------------------------------------------------- SpecFrame
\* one program per behaviour: a call of LU_doolittle, a call of
\* solve_jacobi_element or an assignment statement, told apart by the loop
\* record of the call (none for the statement)
InitFrame == InitLU \/ InitJacobi \/ InitAssign

NextFrame ==
    \/ "j" \in DOMAIN loop /\ NextLU
    \/ "errs" \in DOMAIN loop /\ NextJacobi
    \/ DOMAIN loop = {} /\ NextAssign

SpecFrame == InitFrame /\ [][NextFrame]_vars

\* ================================================================= claims
\* the contract's reading of a matrix: 1-based, row-major
InRange(m, row, col) == row \in 1..m.R /\ col \in 1..m.C
ElementAt(m, row, col) == m.m_elements[(row - 1) * m.C + col]
Coords(m) == (1..m.R) \X (1..m.C)

\* C1: operator()(row, col), mutable and read-only, signals OutOfRange for every
\* (row, col) outside [1,Rows] x [1,Cols] (row = 0, col = 0, row = Rows+1 and
\* col = Cols+1 included) and succeeds, on the element (row, col), inside it.
C1_AccessBoundsChecked ==
    op.name \in {"read", "write"} =>
        IF InRange(mat, op.row, op.col)
        THEN /\ thrown = "none"
             /\ touched = {<<"mat", (op.row - 1) * mat.C + (op.col - 1)>>}
        ELSE thrown = "out_of_range"

\* C2: materializing A*B gives at every (row, col) the dot product
\* sum over k = 1..K of A(row,k)*B(k,col), every operand read being an accessor
\* call at an in-range (row, col).
RECURSIVE SumProducts(_, _, _, _, _)
SumProducts(lhs, rhs, row, col, k) ==
    IF k = 0 THEN 0
    ELSE SumProducts(lhs, rhs, row, col, k - 1)
            + ElementAt(lhs, row, k) * ElementAt(rhs, k, col)

C2_ProductIsDotProduct ==
    (op.name = "materialize" /\ op.kind = "*") =>
        /\ thrown = "none"
        /\ mat3.R = mat1.R /\ mat3.C = mat2.C
        /\ \A rc \in Coords(mat3) :
              ElementAt(mat3, rc[1], rc[2]) = SumProducts(mat1, mat2, rc[1], rc[2], mat1.C)
        /\ \A c \in calls : InRange(Env[c[1]], c[2], c[3])

\* C3: materializing A+B, A-B or A%B of two same-shape containers sets every
\* element (row, col) of the destination to A(row,col)+B(row,col),
\* A(row,col)-B(row,col) or A(row,col)*B(row,col).
C3_ElementWiseArithmetic ==
    (op.name = "materialize" /\ op.kind \in {"+", "-", "%"}) =>
        /\ thrown = "none"
        /\ mat3.R = mat1.R /\ mat3.C = mat1.C
        /\ Len(mat3.m_elements) = mat1.R * mat1.C
        /\ \A rc \in Coords(mat1) :
              LET l == ElementAt(mat1, rc[1], rc[2])
                  r == ElementAt(mat2, rc[1], rc[2])
                  d == ElementAt(mat3, rc[1], rc[2])
              IN  /\ op.kind = "+" => d = l + r
                  /\ op.kind = "-" => d = l - r
                  /\ op.kind = "%" => d = l * r

\* C3 witness: a difference A-B was materialized that no other of the three
\* operations would have given
C3_Witness ==
    /\ op.name = "materialize" /\ op.kind = "-" /\ thrown = "none"
    /\ mat1.R = MaxDim /\ mat1.C = MaxDim
    /\ \E rc \in Coords(mat1) :
          LET l == ElementAt(mat1, rc[1], rc[2])
              r == ElementAt(mat2, rc[1], rc[2])
          IN  /\ ElementAt(mat3, rc[1], rc[2]) = l - r
              /\ l - r # l + r /\ l - r # l * r /\ l - r # r - l

\* C4: each of ==, !=, >=, <=, >, < materializes to a matrix whose element is 1
\* exactly when the named relation holds between lhs(row,col) and rhs(row,col)
\* and 0 otherwise; A < B gives 0 wherever the two elements are equal.
Relation(kind, l, r) ==
    CASE kind = "==" -> l = r
      [] kind = "!=" -> l # r
      [] kind = ">=" -> l >= r
      [] kind = "<=" -> l <= r
      [] kind = ">"  -> l > r
      [] kind = "<"  -> l < r

C4_ComparisonsNamedRelation ==
    (op.name = "materialize" /\ op.kind \in {"==", "!=", ">=", "<=", ">", "<"}) =>
        /\ thrown = "none"
        /\ \A rc \in Coords(mat1) :
              ElementAt(mat3, rc[1], rc[2]) =
                  IF Relation(op.kind, ElementAt(mat1, rc[1], rc[2]),
                                       ElementAt(mat2, rc[1], rc[2]))
                  THEN 1 ELSE 0

\* C5: the nested-list constructor fails with ShapeMismatch whenever the outer
\* length differs from Rows or any inner row, the first or a later one, has a
\* length different from Cols, and then no container is produced.
ListShapeOk(lens, R, C) == Len(lens) = R /\ \A i \in 1..Len(lens) : lens[i] = C

C5_ListShapeChecked ==
    (op.name = "construct_list" /\ ~ListShapeOk(op.lens, op.row, op.col)) =>
        /\ thrown = "invalid_argument"
        /\ mat = NoMatrix

\* the exact product (lower * upper)(row, col), summed over k = 1..k
RECURSIVE ProductAt(_, _, _, _, _)
ProductAt(lower, upper, row, col, k) ==
    IF k = 0 THEN RZero
    ELSE RAdd[ProductAt(lower, upper, row, col, k - 1),
              RMul[ElementAt(lower, row, k), ElementAt(upper, k, col)]]

\* the sum of |m(row, col)| over the columns col <= k other than the diagonal
RECURSIVE OffDiagonalSum(_, _, _)
OffDiagonalSum(m, row, k) ==
    IF k = 0 THEN RZero
    ELSE RAdd[OffDiagonalSum(m, row, k - 1),
              IF k = row THEN RZero ELSE RAbs[ElementAt(m, row, k)]]

\* strict diagonal dominance by rows
DiagonallyDominant(m) ==
    \A row \in 1..m.R :
        RLess[OffDiagonalSum(m, row, m.C), RAbs[ElementAt(m, row, row)]]

PivotsNonzero == \A d \in 1..A.R : ElementAt(U, d, d) # RZero

\* C6: for every square A whose Doolittle pivots U(j,j) are all nonzero, in
\* particular every diagonally dominant A, LU_doolittle leaves (L*U)(i,j) =
\* A(i,j) for every (i,j) in exact arithmetic; the README's A gives
\* L = [[1,0,0],[2,1,0],[3,2,1]] and U = [[1,1,2],[0,-1,-1],[0,0,-3]].
C6_LUReconstructsA ==
    pc = "done" =>
        /\ PivotsNonzero =>
              \A rc \in Coords(A) :
                  ProductAt(L, U, rc[1], rc[2], A.R) = ElementAt(A, rc[1], rc[2])
        /\ DiagonallyDominant(A) => PivotsNonzero
        /\ A = ReadmeLU =>
              /\ L = Square(3, <<1, 0, 0, 2, 1, 0, 3, 2, 1>>)
              /\ U = Square(3, <<1, 1, 2, 0, -1, -1, 0, 0, -3>>)

\* C6 witness: the call has returned on a full matrix of the largest size whose
\* pivots are nonzero and whose factors both hold an entry off the diagonal
C6_Witness ==
    /\ pc = "done" /\ PivotsNonzero /\ A.R = MaxDim /\ A.R > 1
    /\ \A rc \in Coords(A) : ElementAt(A, rc[1], rc[2]) # RZero
    /\ ElementAt(L, A.R, 1) # RZero
    /\ ElementAt(U, 1, A.R) # RZero
    /\ ElementAt(U, A.R, A.R) # ElementAt(A, A.R, A.R)

\* C7: after LU_doolittle has set L to the identity and U to zero, whatever
\* they held before, it writes only entries U(j,i) with i >= j and L(i,j) with
\* i > j, so L is unit lower triangular and U upper triangular from then on
\* and when the call returns.
C7_TriangularFactors ==
    pc \in {"U", "L", "done"} =>
        /\ \A rc \in Coords(A) :
              /\ rc[1] = rc[2] => ElementAt(L, rc[1], rc[2]) = ROne
              /\ rc[1] < rc[2] => ElementAt(L, rc[1], rc[2]) = RZero
              /\ rc[1] > rc[2] => ElementAt(U, rc[1], rc[2]) = RZero
        /\ (op.name = "write" /\ op.kind = "U") => op.row <= op.col
        /\ (op.name = "write" /\ op.kind = "L") => op.row > op.col
        /\ op.name = "write" =>
              touched = {<<op.kind, (op.row - 1) * A.C + (op.col - 1)>>}

\* C7 witness: the call has returned with entries written on both sides
C7_Witness ==
    /\ pc = "done" /\ A.R = MaxDim /\ A.R > 1
    /\ \E rc \in Coords(A) : rc[1] > rc[2] /\ ElementAt(L, rc[1], rc[2]) # RZero
    /\ \E rc \in Coords(A) : rc[1] < rc[2] /\ ElementAt(U, rc[1], rc[2]) # RZero

\* the number of executed iterations of the running call
Executed == Len(loop.errs)

\* the sum over j <= k, j # row, of A(row, j) * v(j)
RECURSIVE OffDiagonalDot(_, _, _)
OffDiagonalDot(v, row, k) ==
    IF k = 0 THEN RZero
    ELSE RAdd[OffDiagonalDot(v, row, k - 1),
              IF k = row THEN RZero
              ELSE RMul[ElementAt(A, row, k), ElementAt(v, k, 1)]]

\* the Jacobi map J(v)(i) = (b(i) - sum over j # i of A(i,j) * v(j)) / A(i,i)
JacobiMap(v) ==
    MatrixOf("double", A.R, 1, [i \in 1..A.R |->
        RDiv[RSub[ElementAt(b, i, 1), OffDiagonalDot(v, i, A.R)],
             ElementAt(A, i, i)]])

AllOnes == MatrixOf("double", A.R, 1, [i \in 1..A.R |-> ROne])

\* the n-fold application of the Jacobi map to the all-ones vector
RECURSIVE JacobiIterate(_)
JacobiIterate(n) == IF n = 0 THEN AllOnes ELSE JacobiMap(JacobiIterate(n - 1))

\* C8: whatever x held at the call, after n executed iterations x is the
\* n-fold application of the Jacobi map to the all-ones vector; with
\* max_iterations = 0 the returned x is all ones, and on non-convergence it is
\* the last iterate.
C8_JacobiIteratesFromOnes ==
    /\ pc \in {"loop", "done"} => x = JacobiIterate(Executed)
    /\ (pc = "done" /\ max_iterations = 0) => x = AllOnes
    /\ out = <<"no conv">> => x = JacobiIterate(max_iterations)

\* C8 witness: a call entered with x holding 7s has returned without
\* convergence after at least two iterations, x away from the all-ones vector
C8_Witness ==
    /\ pc = "done" /\ out = <<"no conv">>
    /\ op.name = "solve_jacobi_element" /\ op.v = 7
    /\ Executed >= 2
    /\ x # AllOnes
    /\ \E i \in 1..A.R : \E j \in 1..A.R : i # j /\ ElementAt(A, i, j) # RZero

\* the sum over i <= k of |v(i) - w(i)|
RECURSIVE L1Distance(_, _, _)
L1Distance(v, w, k) ==
    IF k = 0 THEN RZero
    ELSE RAdd[L1Distance(v, w, k - 1),
              RAbs[RSub[ElementAt(v, k, 1), ElementAt(w, k, 1)]]]

\* the iteration cap, the stop at the first err < tol and the single report
C9_Bounded ==
    /\ pc \in {"loop", "done"} =>
          /\ Executed <= max_iterations
          /\ \A n \in 1..(Executed - 1) : ~RLess[loop.errs[n], tol]
          /\ \A n \in 1..Executed :
                loop.errs[n] =
                    L1Distance(JacobiIterate(n), JacobiIterate(n - 1), A.R)
    /\ pc # "done" => out = <<>>
    /\ pc = "done" => out \in {<<"conv">>, <<"no conv">>}
    /\ out = <<"conv">> => Executed >= 1 /\ RLess[loop.errs[Executed], tol]
    /\ out = <<"no conv">> =>
          /\ Executed = max_iterations
          /\ \A n \in 1..Executed : ~RLess[loop.errs[n], tol]

\* C9: every call of solve_jacobi_element returns, after at most
\* max_iterations iterations: it stops at the first iteration whose update norm
\* err is strictly below tol and reports convergence, otherwise it executes
\* exactly max_iterations iterations and reports non-convergence; one report
\* per call.
C9_TerminatesWithOneReport == [](C9_Bounded) /\ <>(pc = "done")

\* C9 witness: a call has stopped at its second iteration, before the cap
C9_Witness ==
    /\ pc = "done" /\ out = <<"conv">>
    /\ Executed = 2 /\ Executed < max_iterations
    /\ ~RLess[loop.errs[1], tol]

\* the largest |A(row, col)| off the diagonal over the columns col <= k
RECURSIVE MaxOffDiagonal(_, _)
MaxOffDiagonal(row, k) ==
    IF k = 0 THEN RZero
    ELSE LET rest == MaxOffDiagonal(row, k - 1)
             here == IF k = row THEN RZero ELSE RAbs[ElementAt(A, row, k)]
         IN  IF RLess[rest, here] THEN here ELSE rest

\* (A * x - b)(row) for the column v
Residual(v, row) == RSub[ProductAt(A, v, row, 1, A.R), ElementAt(b, row, 1)]

\* every component of A*x - b is within (largest off-diagonal magnitude of its
\* row) * bound
ResidualWithin(bound) ==
    \A row \in 1..A.R :
        ~RLess[RMul[MaxOffDiagonal(row, A.R), bound], RAbs[Residual(x, row)]]

\* the contraction factor of the Jacobi map in the maximum norm: the largest
\* ratio (sum of off-diagonal magnitudes) / |diagonal| over the rows <= k
RECURSIVE Contraction(_)
Contraction(k) ==
    IF k = 0 THEN RZero
    ELSE LET rest == Contraction(k - 1)
             here == RDiv[OffDiagonalSum(A, k, A.C), RAbs[ElementAt(A, k, k)]]
         IN  IF RLess[rest, here] THEN here ELSE rest

RECURSIVE RPow(_, _)
RPow(p, n) == IF n = 0 THEN ROne ELSE RMul[p, RPow(p, n - 1)]

\* the bound R * q^(n-1) * err_1 on the update norm of iteration n
ErrBound(n) ==
    RMul[Rat[A.R, 1], RMul[RPow(Contraction(A.R), n - 1), loop.errs[1]]]

\* the largest |v(i) - w(i)| over i <= k
RECURSIVE MaxDistance(_, _, _)
MaxDistance(v, w, k) ==
    IF k = 0 THEN RZero
    ELSE LET rest == MaxDistance(v, w, k - 1)
             here == RAbs[RSub[ElementAt(v, k, 1), ElementAt(w, k, 1)]]
         IN  IF RLess[rest, here] THEN here ELSE rest

\* the exact solution of the README's system
ReadmeSolution == MatrixOf("double", 2, 1, <<Rat[64, 9], Rat[-29, 9]>>)

C11_ProductShapeLaw ==
    (op.name \in {"materialize", "reject"} /\ op.kind = "*") =>
        IF mat1.C = mat2.R /\ mat1.S = mat2.S
        THEN /\ op.name = "materialize"
             /\ mat3.R = mat1.R /\ mat3.C = mat2.C /\ mat3.S = mat1.S
             /\ Len(mat3.m_elements) = mat1.R * mat2.C
        ELSE /\ op.name = "reject" /\ thrown = "ill_formed"
             /\ calls = {} /\ touched = {} /\ mat3 = NoMatrix

\* C11 witness: a product of two non-square operands has been materialized
C11_Witness ==
    /\ op.name = "materialize" /\ op.kind = "*"
    /\ mat1.R # mat1.C /\ mat1.C = mat2.R /\ mat2.C # mat1.C
    /\ mat3.R = mat1.R /\ mat3.C = mat2.C

\* C12: A op B with op one of + - % == != >= <= > < compiles exactly when the
\* operands have the same scalar type and the same (Rows, Cols), and the
\* result has that shape; any mismatch, for subtraction too, is rejected with
\* no element evaluated.
C12_ElementWiseSameShape ==
    (op.name \in {"materialize", "reject"} /\ op.kind \in ElementWiseOps) =>
        IF mat1.R = mat2.R /\ mat1.C = mat2.C /\ mat1.S = mat2.S
        THEN /\ op.name = "materialize"
             /\ mat3.R = mat1.R /\ mat3.C = mat1.C /\ mat3.S = mat1.S
             /\ Len(mat3.m_elements) = mat1.R * mat1.C
        ELSE /\ op.name = "reject" /\ thrown = "ill_formed"
             /\ calls = {} /\ touched = {} /\ mat3 = NoMatrix

\* C12 witness: a subtraction of operands of different shapes has been rejected
C12_Witness ==
    /\ op.name = "reject" /\ op.kind = "-"
    /\ mat1.S = mat2.S /\ mat1.R = mat2.R /\ mat1.C # mat2.C
    /\ mat3 = NoMatrix

\* C13: a scalar s of the matrix's scalar type can multiply from either side,
\* s * A and A * s both being accepted and materializing to the matrix whose
\* element (row, col) is s * A(row, col); a scalar of another type is rejected
\* when the expression is composed
C13_ScalarMultiplicationBothSides ==
    (op.kind \in {"s*", "*s"}) =>
        IF op.S = mat1.S
        THEN /\ op.name = "materialize"
             /\ thrown = "none"
             /\ mat3.R = mat1.R /\ mat3.C = mat1.C
             /\ \A rc \in Coords(mat1) :
                    ElementAt(mat3, rc[1], rc[2]) = op.v * ElementAt(mat1, rc[1], rc[2])
        ELSE /\ op.name = "reject"
             /\ thrown = "ill_formed"
             /\ calls = {}

\* the identity pattern: one on the diagonal, zero elsewhere
IsIdentity(m) ==
    \A rc \in Coords(m) :
        ElementAt(m, rc[1], rc[2]) = IF rc[1] = rc[2] THEN 1 ELSE 0

\* every element of the full-size buffer of the R x C matrix m is v
AllEqual(m, R, C, v) ==
    /\ m.R = R /\ m.C = C
    /\ Len(m.m_elements) = R * C
    /\ \A k \in 1..(R * C) : m.m_elements[k] = v

\* C14: for every shape a default-constructed Matrix and Matrix(zeros) hold
\* 0 everywhere and Matrix(ones) holds 1 everywhere; for every square shape,
\* 1x1 included, Matrix(eye) and eye() give the identity; for every
\* non-square shape Matrix(eye) and eye() fail with LogicError
C14_FillPolicies ==
    /\ (op.name = "construct_fill" /\ op.kind \in {"default", "zeros"}) =>
            thrown = "none" /\ AllEqual(mat1, op.row, op.col, 0)
    /\ (op.name = "construct_fill" /\ op.kind = "ones") =>
            thrown = "none" /\ AllEqual(mat1, op.row, op.col, 1)
    /\ (op.name = "construct_fill" /\ op.kind = "eye") =>
            IF op.row = op.col
            THEN /\ thrown = "none"
                 /\ mat1.R = op.row /\ mat1.C = op.col
                 /\ Len(mat1.m_elements) = op.row * op.col
                 /\ IsIdentity(mat1)
            ELSE thrown = "logic_error" /\ mat1 = NoMatrix
    /\ (op.name = "eye" /\ Len(Env[op.kind].m_elements) = Env[op.kind].R * Env[op.kind].C) =>
            IF Env[op.kind].R = Env[op.kind].C
            THEN thrown = "none" /\ IsIdentity(Env[op.kind])
            ELSE thrown = "logic_error"

\* the nested list has exactly R rows of exactly C values each
DeclaredShape(lens, R, C) ==
    Len(lens) = R /\ \A i \in 1..Len(lens) : lens[i] = C

\* C15: a matrix constructed from nested literal rows of its declared shape
\* and read back through (row, col) in [1,Rows] x [1,Cols] returns the col-th
\* value of the row-th row
C15_ListRoundTrip ==
    [][(/\ op.name = "construct_list"
        /\ DeclaredShape(op.lens, op.row, op.col)
        /\ op'.name = "read"
        /\ op'.row \in 1..op.row /\ op'.col \in 1..op.col)
       => /\ thrown = "none"
          /\ thrown' = "none"
          /\ value' = <<NestedList(op.lens)[op'.row][op'.col]>>]_vars

\* the list { { 1, 2 }, { 3, 4 } } of the constructor test, element (2, 1) read
C15_Witness ==
    /\ op.name = "read" /\ op.row = 2 /\ op.col = 1
    /\ nwrites = 0
    /\ mat = Matrix(2, 2, <<1, 2, 3, 4>>)
    /\ value = <<3>>

\* C16: fillf(generator) on a full-size matrix calls the generator exactly
\* Rows*Cols times and stores the value of the k-th call in the element
\* (row, col) with k = (row-1)*Cols + col; with a generator counting 1, 2,
\* 3, ... element (row, col) ends as (row-1)*Cols + col
C16_FillfRowMajor ==
    (op.name = "fillf" /\ Len(Env[op.kind].m_elements) = Env[op.kind].R * Env[op.kind].C) =>
        LET m == Env[op.kind]
        IN  /\ {c[2] : c \in calls} = 1..(m.R * m.C)
            /\ Cardinality(calls) = m.R * m.C
            /\ \A c \in calls : c[1] = "lambda"
            /\ \A c \in calls : ElementAt(m, RowOf(c[2], m.C), ColOf(c[2], m.C)) = c[3]
            /\ (op.gen = Counter(1)) =>
                    \A rc \in Coords(m) :
                        ElementAt(m, rc[1], rc[2]) = (rc[1] - 1) * m.C + rc[2]

\* the counting generator filled a non-square matrix with more than one row
C16_Witness ==
    /\ op.name = "fillf" /\ op.kind = "mat1" /\ op.gen = Counter(1)
    /\ mat1.R = 2 /\ mat1.C = 1 /\ "mat1" \notin resets
    /\ mat1.m_elements = <<1, 2>>
    /\ Cardinality(calls) = 2

\* the constructors of the object specification
Constructors == {"construct_fill", "construct", "copy_construct"}

\* C17: is_empty() is false for a matrix produced by any constructor, is true
\* immediately after reset(), and is true only if reset() has been called on
\* that same object: the buffer length is exactly Rows*Cols unless that
\* object itself was reset
C17_EmptyOnlyAfterOwnReset ==
    /\ \A name \in Names :
            (Env[name] # NoMatrix /\ name \notin resets) =>
                Len(Env[name].m_elements) = Env[name].R * Env[name].C
    /\ (op.name \in Constructors /\ thrown = "none") =>
            Len(Env[IF op.name = "construct_fill" THEN "mat1" ELSE op.kind].m_elements) > 0
    /\ (op.name = "reset") => Len(Env[op.kind].m_elements) = 0
    /\ (op.name = "is_empty") =>
            /\ value = <<BoolToS(Len(Env[op.kind].m_elements) = 0)>>
            /\ (value = <<1>>) => op.kind \in resets

\* C18: after reset() every operator()(row, col) on that matrix, for any row
\* and col, the indices that were valid before the reset included, signals
\* an error instead of reading or writing storage
C18_AccessAfterResetSignals ==
    (/\ op.name \in {"read", "write"}
     /\ op.kind \in resets
     /\ Len(Env[op.kind].m_elements) = 0) =>
        thrown = "out_of_range" /\ touched = {}

\* the calls that change the contents of the object they are made on
Mutations == {"write", "fill", "zeros", "ones", "eye", "fillf", "reset", "copy_assign"}

ReadsInside(row, col) ==
    /\ InRange(mat1, row, col) /\ InRange(mat2, row, col)
    /\ Len(mat1.m_elements) = mat1.R * mat1.C
    /\ Len(mat2.m_elements) = mat2.R * mat2.C

\* C20: an expression node holds references to its operands and no element
\* values: two evaluations at the same (row, col) with no operand mutation
\* between them return the same value, and an evaluation made after an operand
\* was mutated (after the node was built, or between two evaluations) uses
\* the current contents of the operand
C20_NodeReadsCurrentOperands ==
    [][(op'.name = "evaluate" /\ ReadsInside(op'.row, op'.col)) =>
        /\ thrown' = "none"
        /\ calls' = {<<"mat1", op'.row, op'.col>>, <<"mat2", op'.row, op'.col>>}
        /\ value' = <<ElementAt(mat1, op'.row, op'.col)
                        + ElementAt(mat2, op'.row, op'.col)>>
        /\ (op.name = "evaluate" /\ op.row = op'.row /\ op.col = op'.col) =>
                value' = value]_vars

\* an evaluation after an operand was overwritten: the node was built over
\* two zero matrices, mat1 was then filled with 5, and e(1, 1) is 5
C20_Witness ==
    /\ op.name = "evaluate" /\ op.row = 1 /\ op.col = 1
    /\ expr # NoExpr
    /\ expr.built.mat1.m_elements = <<0, 0>>
    /\ expr.built.mat2.m_elements = <<0, 0>>
    /\ mat1.m_elements = <<5, 5>> /\ mat2.m_elements = <<0, 0>>
    /\ value = <<5>>

\* the elements (r,1), ..., (r,Cols) and (1,c), ..., (Rows,c) of a matrix
RowValues(m, r) == [k \in 1..m.C |-> ElementAt(m, r, k)]
ColValues(m, c) == [k \in 1..m.R |-> ElementAt(m, k, c)]

\* the elements a loop that started at the iterator first is to yield
Line(m, first) ==
    IF first.kind = "row" THEN RowValues(m, first.current_row)
    ELSE ColValues(m, first.current_col)

\* first is what row_begin(r) returns for a row of the matrix, or what
\* col_begin(c) returns for a column of the matrix
BeginInside(m, first) ==
    \/ first.kind = "row" /\ first.current_col = 1 /\ first.current_row \in 1..m.R
    \/ first.kind = "col" /\ first.current_row = 1 /\ first.current_col \in 1..m.C

C23_IteratorBoundsChecked ==
    /\ (op.name \in {"row_begin", "row_end"}) =>
            IF op.row \in 1..mat.R
            THEN thrown = "none" /\ it # NoIterator
            ELSE thrown = "out_of_range" /\ it = NoIterator
    /\ (op.name \in {"col_begin", "col_end"}) =>
            IF op.row \in 1..mat.C
            THEN thrown = "none" /\ it # NoIterator
            ELSE thrown = "out_of_range" /\ it = NoIterator

\* C25: an assignment of v through the mutable accessor at an in-range
\* (row, col) makes every later read of (row, col) return v until the element
\* is written again, and leaves every other element of the matrix unchanged
C25_WriteChangesOneElement ==
    [][/\ (op'.name = "write" /\ InRange(mat, op'.row, op'.col)) =>
            /\ thrown' = "none"
            /\ mat'.R = mat.R /\ mat'.C = mat.C
            /\ Len(mat'.m_elements) = Len(mat.m_elements)
            /\ \A rc \in Coords(mat) :
                    ElementAt(mat', rc[1], rc[2]) =
                        IF rc = <<op'.row, op'.col>> THEN op'.v
                        ELSE ElementAt(mat, rc[1], rc[2])
       /\ (op'.name = "read") =>
            /\ mat' = mat
            /\ InRange(mat, op'.row, op'.col) =>
                    /\ thrown' = "none"
                    /\ value' = <<ElementAt(mat, op'.row, op'.col)>>]_vars

\* 5 was assigned to element (1, 2) of [[1,2],[3,4]] and is read back
C25_Witness ==
    /\ op.name = "read" /\ op.row = 1 /\ op.col = 2
    /\ nwrites = 1
    /\ mat = Matrix(2, 2, <<1, 5, 3, 4>>)
    /\ value = <<5>>


\* C26: LU_doolittle never verifies or signals singularity: for every square
\* input, a zero pivot U(j,j) included, every step of the call is followed by
\* the next one until all N pivot steps are done, no error is raised and every
\* access stays inside L and U; the quotient by a zero pivot, an infinity or a
\* NaN, is what the call leaves in L(i,j), i > j.
C26_NoSingularityCheck ==
    /\ thrown = Unused
    /\ pc # "done" => ENABLED NextLU
    /\ \A t \in touched : t[2] \in 0..(A.R * A.C - 1)
    /\ pc = "done" =>
          /\ loop.j = A.R + 1
          /\ \A rc \in Coords(A) :
                (rc[1] > rc[2] /\ ElementAt(U, rc[2], rc[2]) = RZero)
                    => ~IsFinite(ElementAt(L, rc[1], rc[2]))

\* a call on a matrix with a zero pivot has returned with a non-finite L
C26_Witness ==
    /\ pc = "done" /\ A.R = MaxDim /\ A.R > 1
    /\ ElementAt(U, 1, 1) = RZero
    /\ ~IsFinite(ElementAt(L, A.R, 1))
    /\ op.name = "write"


\* the arithmetic an expression denotes on 1-based matrices: element-wise
\* sums and differences and the matrix product
RECURSIVE Composed(_, _, _, _)
RECURSIVE ComposedProduct(_, _, _, _, _)
Composed(e, env, row, col) ==
    IF e.kind = "leaf" THEN ElementAt(env[e.name], row, col)
    ELSE IF e.kind = "*" THEN ComposedProduct(e, env, row, col, ExprCols(e.lhs, env))
    ELSE IF e.kind = "+" THEN Composed(e.lhs, env, row, col) + Composed(e.rhs, env, row, col)
    ELSE Composed(e.lhs, env, row, col) - Composed(e.rhs, env, row, col)

ComposedProduct(e, env, row, col, k) ==
    IF k = 0 THEN 0
    ELSE ComposedProduct(e, env, row, col, k - 1)
            + Composed(e.lhs, env, row, k) * Composed(e.rhs, env, k, col)

\* C24: a nested expression consumed within one statement (A + B + C - B,
\* A*B*C + B) materializes to the composed arithmetic, left to right, of its
\* operands; A + B - B gives A; [[1,2],[3,4]]*[[5,6],[7,8]]*[[9,10],[11,12]]
\* + [[5,6],[7,8]] gives [[418,460],[944,1038]].
C24_NestedExpressionValue ==
    (op.name = "assign" /\ op.lens = <<"mat">>
        /\ op.kind \in {"A+B+C-B", "A+B-B", "A*B*C+B"}) =>
        /\ thrown = "none"
        /\ Len(mat.m_elements) = mat.R * mat.C
        /\ \A rc \in Coords(mat) :
              ElementAt(mat, rc[1], rc[2]) =
                  Composed(Expression(op.kind), Objects, rc[1], rc[2])
        /\ \A c \in calls : InRange(Objects[c[1]], c[2], c[3])
        /\ op.kind = "A+B-B" => mat = mat1
        /\ (/\ op.kind = "A*B*C+B"
            /\ mat1 = Matrix(2, 2, <<1, 2, 3, 4>>)
            /\ mat2 = Matrix(2, 2, <<5, 6, 7, 8>>)
            /\ mat3 = Matrix(2, 2, <<9, 10, 11, 12>>))
                => mat = Matrix(2, 2, <<418, 460, 944, 1038>>)

\* the statements of C24 without a product
SumsAndDifferencesCompose ==
    (op.name = "assign" /\ op.lens = <<"mat">> /\ op.kind \in {"A+B+C-B", "A+B-B"}) =>
        /\ thrown = "none"
        /\ \A rc \in Coords(mat) :
              ElementAt(mat, rc[1], rc[2]) =
                  Composed(Expression(op.kind), Objects, rc[1], rc[2])
        /\ op.kind = "A+B-B" => mat = mat1


\* C28: assigning an expression that reads the destination (D = D * B,
\* D = D + D) gives D the value of the expression computed entirely from D's
\* old contents, as the operators of the code compute it: the expression is
\* materialized into a temporary before D's buffer is overwritten.  The other
\* operands keep their values.
C28_AliasedAssignmentReadsOldContents ==
    [][(op'.name = "assign" /\ op'.lens = <<"mat1">> /\ thrown' = "none") =>
            /\ mat1'.R = mat1.R /\ mat1'.C = mat1.C
            /\ Len(mat1'.m_elements) = mat1.R * mat1.C
            /\ \E g \in Garbage \cup {0} :
                  \A rc \in Coords(mat1) :
                      ElementAt(mat1', rc[1], rc[2]) =
                          Eval(Expression(op'.kind), Objects, rc[1], rc[2], g)
            /\ op'.kind = "A+A" =>
                  \A rc \in Coords(mat1) :
                      ElementAt(mat1', rc[1], rc[2]) = 2 * ElementAt(mat1, rc[1], rc[2])
            /\ mat2' = mat2 /\ mat3' = mat3]_vars

\* D = D * B has run on a D with more than one row and column and changed it
C28_Witness ==
    /\ op.name = "assign" /\ op.lens = <<"mat1">> /\ op.kind = "A*B"
    /\ thrown = "none"
    /\ mat1.R = MaxDim /\ mat1.C = MaxDim /\ mat1.R > 1
    /\ mat1 \notin AssignOperands
    /\ \A k \in 1..Len(mat2.m_elements) : mat2.m_elements[k] # 0


\* C29: no operation modifies its inputs: materializing an expression into a
\* destination that is none of its operands leaves every operand unchanged,
\* LU_doolittle with L and U distinct from A leaves A unchanged and writes
\* only into L and U, and solve_jacobi_element with x distinct from A and b
\* leaves A and b unchanged.
C29_InputsUnchanged ==
    [][/\ (op'.name = "assign" /\ op'.lens = <<"mat">>) =>
            mat1' = mat1 /\ mat2' = mat2 /\ mat3' = mat3
       /\ "j" \in DOMAIN loop =>
            /\ A' = A
            /\ \A t \in touched' : t[1] \in {"L", "U"}
       /\ "errs" \in DOMAIN loop => A' = A /\ b' = b]_vars

\* an expression of nonzero operands has been materialized into mat, which
\* now differs from every operand
C29_Witness ==
    /\ op.name = "assign" /\ op.lens = <<"mat">> /\ thrown = "none"
    /\ mat.R = MaxDim /\ mat.C = MaxDim
    /\ mat \notin {mat1, mat2, mat3}
    /\ \A k \in 1..Len(mat1.m_elements) : mat1.m_elements[k] # 0


\* C27: newtonRaphson(x, F, dF, max_iterations, accuracy) performs at most
\* max_iterations iterations, for every max_iterations, 0 included, and so
\* always terminates: the iterations made never exceed the caller's limit.
C27_IterationsBounded == iter <= loop.limit

\* the part of C27 that the loop keeps: with a limit of at least 1 the
\* iterations made never exceed it
IterationsBoundedFromOne == loop.limit >= 1 => iter <= loop.limit


\* C30: in every reachable state, after reset() included, every operation on
\* a Matrix either signals an error or touches only positions 0 .. length-1
\* of the buffer of the object it addresses: no operation that returns
\* normally has read or written outside a buffer, and none is stopped by the
\* platform for doing so.
C30_OperationsStayInBuffer ==
    /\ thrown # "segv"
    /\ thrown = "none" => \A t \in touched : InBuffer(Env[t[1]], t[2])

\* the operations that keep C30: all but operator() and eye()
StayInBufferButAccessAndEye ==
    op.name \notin {"read", "write", "eye"} => C30_OperationsStayInBuffer

====
